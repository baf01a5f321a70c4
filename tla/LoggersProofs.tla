---------------------------- MODULE LoggersProofs ----------------------------
(***************************************************************************)
(* The invariants of the three loggers, for any number of threads, calls   *)
(* and levels.                                                             *)
(***************************************************************************)
EXTENDS Loggers, SequenceTheorems, FiniteSetTheorems, TLAPS

-----------------------------------------------------------------------------
(* Each step of the three libraries is one of seven things.                *)

\* The settings change, and nothing of a call.
Sets ==
  /\ UNCHANGED <<lib, pc, call, on, started, clock, tm, crossed, out>>
  /\ lock' = lock \/ (lock' = NULL /\ Quiescent)
  /\ quiet' = quiet \/ (quiet' \in BOOLEAN /\ Quiescent)
  /\ ready' \in BOOLEAN /\ enabled' \subseteq Levels
  /\ \/ UNCHANGED <<fp, inits, swapped>>
     \/ /\ inits < MaxInits[lib] /\ inits' = inits + 1
        /\ \/ lib = "slog" /\ UNCHANGED <<fp, swapped>>
           \/ lib = "log" /\ fp' = "file" /\ \E t \in Threads : pc[t] = "idle" /\ Swap(t)
           \/ /\ lib = "pretty_log" /\ fp' \in {NULL, "file"} /\ swapped' = swapped
              /\ \A a \in Activities : pc[a] \notin Calling

\* What only the settings and the mutex are.
Steady == UNCHANGED <<lib, ready, quiet, clock, tm, crossed>>

BeginsAt(a, step, l, k) ==
  /\ Steady /\ UNCHANGED <<enabled, lock, out>>
  /\ pc[a] = "idle" /\ started < MaxCalls /\ started' = started + 1
  /\ on' \in Threads \cup {NULL}
  /\ step \in {"convert", "gate"} /\ l \in Levels /\ k \in {"line", "raw", "nt"}
  /\ pc' = [pc EXCEPT ![a] = step]
  /\ call' = [call EXCEPT ![a] = [NoCall EXCEPT !.id = started + 1,
                                                !.level = l, !.kind = k]]
  /\ lib = "log" => step = "gate" /\ a \in Threads
  /\ \/ UNCHANGED <<fp, inits, swapped>>
     \/ lib = "log" /\ fp' = NULL /\ inits < MaxInits[lib] /\ inits' = inits + 1 /\ Swap(a)

Begins(a) == \E step, l, k : BeginsAt(a, step, l, k)

Returns(a) ==
  /\ Steady /\ UNCHANGED <<enabled, inits, fp, out, started, swapped>>
  /\ pc[a] \in {"gate", "unlock"} /\ pc' = [pc EXCEPT ![a] = "idle"]
  /\ call' = [call EXCEPT ![a] = NoCall]
  /\ on' \in Threads \cup {NULL}
  /\ lock' = lock \/ (pc[a] = "unlock" /\ a \in Threads /\ lock' = NULL)

\* The clock is read and converted.
Converts(a) ==
  /\ UNCHANGED <<settings, on, started, fp, lock, out, swapped>>
  /\ pc[a] = "convert" /\ pc' = [pc EXCEPT ![a] = "date"]
  /\ clock' = clock + 1 /\ tm' = clock + 1
  /\ call' = [call EXCEPT ![a].at = clock + 1]
  /\ crossed' = crossed \cup {call[b].id : b \in {b \in Activities \ {a} :
                                                    pc[b] \in {"date", "time"}}}

\* The stamp, or a part of it, is written.
FormatsTo(a, to, x) ==
  /\ Steady /\ UNCHANGED <<enabled, inits, on, started, fp, lock, out, swapped>>
  /\ pc' = [pc EXCEPT ![a] = to]
  /\ call' = [call EXCEPT ![a].stamp = x]
  /\ \/ pc[a] = "date" /\ to = "time" /\ x = <<tm, 0>>
     \/ /\ pc[a] = "time" /\ x = <<call[a].stamp[1], tm>>
        /\ to = IF lib = "log" THEN "head" ELSE "gate"
     \/ /\ lib = "log" /\ pc[a] = "file" /\ to = "fhead" /\ x = <<tm, tm>>
        /\ fp # NULL /\ ~quiet

Formats(a) == \E to, x : FormatsTo(a, to, x)

\* Where an activity that has the mutex begins.
First(a) ==
  CASE lib = "log" -> (IF quiet THEN "file" ELSE "convert")
    [] lib = "pretty_log" -> (IF call[a].kind = "raw" THEN "body" ELSE "head")
    [] lib = "slog" -> "check"

\* The activity goes on within its call, or ends the process.
GoesTo(a, to) ==
  /\ UNCHANGED <<enabled, lock, fp, inits, swapped>>
  /\ \/ pc[a] = "gate" /\ to = "lock"
     \/ pc[a] = "file" /\ lib # "slog" /\ to = "unlock"
     \/ pc[a] = "file" /\ lib = "log" /\ fp # NULL /\ quiet /\ to = "crashed"
     \/ pc[a] \in {"fhead", "fbody", "fend"} /\ lib = "log" /\ fp # "file"
        /\ to = "crashed"
     \/ pc[a] = "flush" /\ lib = "log" /\ fp = "closed" /\ to = "crashed"
     \/ pc[a] = "check" /\ lib = "slog" /\ fp = NULL /\ to = "default"
     \/ pc[a] = "check" /\ lib = "slog" /\ fp # NULL /\ to = Printing(a)

\* It has used the stream, and nothing is printed.
Misses(a, to) ==
  /\ UNCHANGED <<enabled, lock, fp, inits>> /\ Used(a)
  /\ \/ pc[a] = "fhead" /\ lib = "log" /\ fp = "closed" /\ to = "fbody"
     \/ pc[a] = "fbody" /\ lib = "log" /\ fp = "closed" /\ to = "fend"
     \/ pc[a] = "fend" /\ lib = "log" /\ fp = "closed" /\ to = "flush"
     \/ pc[a] = "flush" /\ lib = "log" /\ to = "unlock"
     \/ pc[a] \in {"head", "body", "end"} /\ lib = "slog" /\ fp = NULL /\ to = "crashed"

\* It takes the mutex, unless it is the handler.
Locks(a, to) ==
  /\ pc[a] = "lock" /\ Acquire(a) /\ to = First(a) /\ (lib = "log" => a \in Threads)
  /\ UNCHANGED <<enabled, fp, inits, swapped>>

\* It gives slog the screen.
Defaults(a, to) ==
  /\ pc[a] = "default" /\ lib = "slog" /\ to = Printing(a) /\ fp' = "screen"
  /\ \/ fp = "file" /\ Swap(a)
     \/ fp # "file" /\ swapped' = swapped
  /\ UNCHANGED <<enabled, lock, inits>>

\* It is in log_init of slog.
Opens(a, to) ==
  /\ a \in Threads /\ lib = "slog" /\ swapped' = swapped
  /\ \/ /\ pc[a] = "idle" /\ to = "init" /\ enabled' \subseteq Levels
        /\ UNCHANGED <<lock, fp>>
        /\ inits < MaxInits[lib] /\ inits' = inits + 1
     \/ /\ UNCHANGED <<enabled, inits>>
        /\ \/ pc[a] = "init" /\ to = "open" /\ lock = NULL /\ lock' = a /\ fp' = fp
           \/ pc[a] = "open" /\ lock' = lock /\ fp' = "file" /\ to = "opened"
           \/ pc[a] = "open" /\ lock' = lock /\ fp' = NULL /\ to = "failed"
           \/ pc[a] = "failed" /\ to = "opened" /\ lock' = lock /\ fp' = "screen"
           \/ pc[a] = "opened" /\ to = "idle" /\ lock' = NULL /\ fp' = fp

\* It closes the file of log.c.
Closes(a, to) ==
  /\ a \in Threads /\ lib = "log" /\ UNCHANGED <<enabled, lock>>
  /\ \/ /\ pc[a] = "idle" /\ to = "fclose" /\ fp # NULL /\ UNCHANGED <<fp, swapped>>
        /\ inits < MaxInits[lib] /\ inits' = inits + 1
     \/ /\ pc[a] = "fclose" /\ inits' = inits
        /\ \/ fp = "file" /\ fp' = "closed" /\ to = "idle" /\ Swap(a)
           \/ fp = "closed" /\ fp' = fp /\ to = "idle" /\ Used(a)
           \/ fp # "file" /\ fp' = fp /\ to = "crashed" /\ swapped' = swapped

MovesTo(a, to) ==
  /\ UNCHANGED <<lib, ready, quiet, clock, tm, crossed, call, on, started, out>>
  /\ pc' = [pc EXCEPT ![a] = to]
  /\ \/ GoesTo(a, to) \/ Misses(a, to) \/ Locks(a, to) \/ Defaults(a, to)
     \/ Opens(a, to) \/ Closes(a, to)

Moves(a) == \E to : MovesTo(a, to)

\* A piece is printed.
Piece(a, part, stamp) ==
  [id |-> call[a].id, by |-> a, part |-> part, at |-> call[a].at, stamp |-> stamp,
   torn |-> a \in swapped]

PrintsTo(a, to, s, part, stamp) ==
  /\ Steady /\ UNCHANGED <<enabled, inits, call, on, started, fp, lock>>
  /\ pc' = [pc EXCEPT ![a] = to]
  /\ out' = [out EXCEPT ![s] = Append(@, Piece(a, part, stamp))]
  /\ swapped' = IF lib = "slog" \/ pc[a] \in {"fhead", "fbody", "fend"}
                THEN swapped \ {a} ELSE swapped
  /\ \/ /\ pc[a] = "head" /\ to = "body" /\ s = Stream(a) /\ part = "head"
        /\ stamp \in {call[a].stamp, Garbage} /\ (lib = "slog" => fp # NULL)
     \/ /\ pc[a] = "body" /\ (lib = "log" \/ call[a].kind # "raw")
        /\ to = "end" /\ s = Stream(a) /\ part = "body" /\ stamp = NoTime
        /\ lib = "slog" => fp # NULL
     \/ /\ pc[a] = "body" /\ lib # "log" /\ call[a].kind = "raw" /\ s = Stream(a)
        /\ part = "raw" /\ stamp = NoTime /\ (lib = "slog" => fp # NULL)
        /\ to = IF lib = "slog" THEN "unlock" ELSE "file"
     \/ /\ pc[a] = "end" /\ s = Stream(a) /\ part = "end" /\ stamp = NoTime
        /\ to = (IF lib = "slog" THEN "unlock" ELSE "file")
        /\ lib = "slog" => fp # NULL
     \/ /\ lib = "pretty_log" /\ pc[a] = "file" /\ to = "unlock" /\ s = "file"
        /\ part \in {"raw", "line"} /\ stamp = call[a].stamp
     \/ /\ lib = "log" /\ fp = "file" /\ s = "file"
        /\ \/ pc[a] = "fhead" /\ to = "fbody" /\ part = "head" /\ stamp = call[a].stamp
           \/ pc[a] = "fbody" /\ to = "fend" /\ part = "body" /\ stamp = NoTime
           \/ pc[a] = "fend" /\ to = "flush" /\ part = "end" /\ stamp = NoTime

Prints(a) == \E to, s, part, stamp : PrintsTo(a, to, s, part, stamp)

Acts(a) ==
  Begins(a) \/ Returns(a) \/ Converts(a) \/ Formats(a) \/ Moves(a) \/ Prints(a)

Steps == UNCHANGED vars \/ Sets \/ \E a \in Activities : Acts(a)

-----------------------------------------------------------------------------
USE LogAssumption DEF Libraries, Activities, Go, At

LEMMA GateKind ==
  ASSUME TypeOK, NEW a \in Activities, Gate(a)
  PROVE  Acts(a)
<1>1. CASE call[a].level \in enabled /\ Go(a, "lock") /\ UNCHANGED calls
  <2>1. MovesTo(a, "lock")
    BY <1>1 DEF Gate, MovesTo, GoesTo, settings, stamping, calls
  <2> QED BY <2>1 DEF Moves, Acts
<1>2. CASE Return(a)
  BY <1>2 DEF Gate, Return, Acts, Returns, Steady, settings, stamping, TypeOK
<1> QED BY <1>1, <1>2 DEF Gate

LEMMA LeaveKind ==
  ASSUME TypeOK, NEW a \in Activities, Leave(a)
  PROVE  Acts(a)
<1>1. Returns(a)
  BY DEF Leave, Return, Returns, Steady, settings, stamping, TypeOK
<1> QED BY <1>1 DEF Acts

LEMMA ConvertKind ==
  ASSUME NEW a \in Activities, Convert(a)
  PROVE  Acts(a)
<1>1. Converts(a)
  BY DEF Convert, Converts, settings
<1> QED BY <1>1 DEF Acts

LEMMA FormatKind ==
  ASSUME NEW a \in Activities,
         FormatDate(a) \/ FormatTime(a, IF lib = "log" THEN "head" ELSE "gate")
  PROVE  Acts(a)
<1>1. CASE FormatDate(a)
  <2>1. FormatsTo(a, "time", <<tm, 0>>)
    BY <1>1 DEF FormatDate, FormatsTo, Steady, settings, stamping
  <2> QED BY <2>1 DEF Formats, Acts
<1>2. CASE FormatTime(a, IF lib = "log" THEN "head" ELSE "gate")
  <2>1. FormatsTo(a, IF lib = "log" THEN "head" ELSE "gate", <<call[a].stamp[1], tm>>)
    BY <1>2 DEF FormatTime, FormatsTo, Steady, settings, stamping, TypeOK
  <2> QED BY <2>1 DEF Formats, Acts
<1> QED BY <1>1, <1>2

LEMMA EnterKind ==
  ASSUME NEW a \in Activities, Enter(a, First(a)), lib = "log" => a \in Threads
  PROVE  Acts(a)
<1>1. MovesTo(a, First(a))
  BY DEF Enter, MovesTo, Locks, settings, stamping, calls
<1> QED BY <1>1 DEF Moves, Acts

LEMMA BeginKind ==
  ASSUME NEW a \in Activities, NEW k \in {"line", "raw", "nt"}, NEW l \in Levels,
         NEW step \in {"convert", "gate"}, Begin(a, k, l, step),
         UNCHANGED <<lib, ready, enabled, quiet, stamping, lock, out>>,
         lib = "log" => step = "gate" /\ a \in Threads,
         \/ UNCHANGED <<fp, inits, swapped>>
         \/ lib = "log" /\ fp' = NULL /\ inits < MaxInits[lib] /\ inits' = inits + 1
            /\ Swap(a),
         on \in Threads \cup {NULL}
  PROVE  Acts(a)
<1>1. BeginsAt(a, step, l, k)
  BY DEF Begin, BeginsAt, Steady, stamping
<1> QED BY <1>1 DEF Begins, Acts

LEMMA LogKinds ==
  ASSUME TypeOK, LogNext
  PROVE  Steps
<1>1. CASE (\E level \in 1 .. Cardinality(Levels) + 1, q \in BOOLEAN : log_init(level, q))
  BY <1>1 DEF log_init, Steps, Sets, stamping, calls, TypeOK
<1>2. CASE log_deinit
  BY <1>2 DEF log_deinit, Steps, Sets, stamping, calls, TypeOK
<1>3. ASSUME NEW t \in Threads, file_log_init(t) PROVE Steps
  <2>1. CASE fp' = "file" /\ UNCHANGED <<pc, calls>>
    BY <1>3, <2>1 DEF file_log_init, Steps, Sets, stamping, calls, TypeOK
  <2>2. CASE fp' = NULL /\ \E l \in Levels : Begin(t, "line", l, "gate")
    <3>1. Acts(t)
      BY <1>3, <2>2, BeginKind DEF file_log_init, TypeOK
    <3> QED BY <3>1 DEF Steps
  <2> QED BY <1>3, <2>1, <2>2 DEF file_log_init
<1>4. ASSUME NEW t \in Threads, file_log_deinit(t) PROVE Steps
  <2>1. MovesTo(t, "fclose")
    BY <1>4 DEF file_log_deinit, MovesTo, Closes, stamping, calls
  <2> QED BY <2>1 DEF Steps, Acts, Moves
<1>5. ASSUME NEW t \in Threads, LogCall(t) PROVE Steps
  <2>1. Acts(t)
    BY <1>5, BeginKind DEF LogCall, TypeOK, settings
  <2> QED BY <2>1 DEF Steps
<1>6. ASSUME NEW t \in Threads, LogStep(t) PROVE Steps
  <2> USE <1>6
  <2> SUFFICES Acts(t)
    BY DEF Steps
  <2>0. lib = "log" /\ t \in Activities /\ t # Handler
    BY DEF LogStep
  <2>1. CASE LogScreen(t)
    <3>1. CASE At(t, "head") /\ Go(t, "body") /\ Put(t, "screen", "head", call[t].stamp)
      <4>1. PrintsTo(t, "body", "screen", "head", call[t].stamp)
        BY <2>0, <2>1, <3>1 DEF LogScreen, Put, Piece, PrintsTo, Steady, Stream, settings,
                           stamping, calls
      <4> QED BY <4>1 DEF Prints, Acts
    <3>2. CASE At(t, "body") /\ Go(t, "end") /\ Put(t, "screen", "body", NoTime)
      <4>1. PrintsTo(t, "end", "screen", "body", NoTime)
        BY <2>0, <2>1, <3>2 DEF LogScreen, Put, Piece, PrintsTo, Steady, Stream, settings,
                           stamping, calls
      <4> QED BY <4>1 DEF Prints, Acts
    <3>3. CASE At(t, "end") /\ Go(t, "file") /\ Put(t, "screen", "end", NoTime)
      <4>1. PrintsTo(t, "file", "screen", "end", NoTime)
        BY <2>0, <2>1, <3>3 DEF LogScreen, Put, Piece, PrintsTo, Steady, Stream, settings,
                           stamping, calls
      <4> QED BY <4>1 DEF Prints, Acts
    <3> QED BY <2>1, <3>1, <3>2, <3>3 DEF LogScreen
  <2>2. CASE LogFile(t)
    <3>1. CASE fp = NULL /\ Go(t, "unlock") /\ call' = call
      <4>1. MovesTo(t, "unlock")
        BY <2>0, <2>2, <3>1 DEF LogFile, MovesTo, GoesTo, settings, stamping
      <4> QED BY <4>1 DEF Moves, Acts
    <3>2. CASE fp # NULL /\ quiet /\ Go(t, "crashed") /\ call' = call
      <4>1. MovesTo(t, "crashed")
        BY <2>0, <2>2, <3>2 DEF LogFile, MovesTo, GoesTo, settings, stamping
      <4> QED BY <4>1 DEF Moves, Acts
    <3>3. CASE /\ fp # NULL /\ ~quiet /\ Go(t, "fhead")
               /\ call' = [call EXCEPT ![t].stamp = <<tm, tm>>]
      <4>1. FormatsTo(t, "fhead", <<tm, tm>>)
        BY <2>0, <2>2, <3>3 DEF LogFile, FormatsTo, Steady, settings, stamping
      <4> QED BY <4>1 DEF Formats, Acts
    <3> QED BY <2>2, <3>1, <3>2, <3>3 DEF LogFile
  <2>3. CASE LogWrite(t)
    <3> UNCHANGED <<settings, stamping, calls, fp, lock>>
      BY <2>3 DEF LogWrite
    <3>1. ASSUME NEW step \in {"fhead", "fbody", "fend"}, NEW then, NEW part, NEW stamp,
                 FilePiece(t, step, then, part, stamp),
                 \/ step = "fhead" /\ then = "fbody" /\ part = "head"
                    /\ stamp = call[t].stamp
                 \/ step = "fbody" /\ then = "fend" /\ part = "body" /\ stamp = NoTime
                 \/ step = "fend" /\ then = "flush" /\ part = "end" /\ stamp = NoTime
          PROVE  Acts(t)
      <4>1. CASE fp = "file" /\ Go(t, then) /\ Put(t, "file", part, stamp) /\ Used(t)
        <5>1. PrintsTo(t, then, "file", part, stamp)
          BY <2>0, <3>1, <4>1 DEF FilePiece, Put, Piece, Used, PrintsTo, Steady, settings,
                                  stamping, calls
        <5> QED BY <5>1 DEF Prints, Acts
      <4>2. CASE fp = "closed" /\ Go(t, then) /\ out' = out /\ Used(t)
        <5>1. MovesTo(t, then)
          BY <2>0, <3>1, <4>2 DEF FilePiece, MovesTo, Misses, settings, stamping, calls
        <5> QED BY <5>1 DEF Moves, Acts
      <4>3. CASE fp # "file" /\ Go(t, "crashed") /\ out' = out /\ swapped' = swapped
        <5>1. MovesTo(t, "crashed")
          BY <2>0, <3>1, <4>3 DEF FilePiece, MovesTo, GoesTo, settings, stamping, calls
        <5> QED BY <5>1 DEF Moves, Acts
      <4> QED BY <3>1, <4>1, <4>2, <4>3 DEF FilePiece
    <3>2. CASE At(t, "flush") /\ Go(t, "unlock") /\ out' = out /\ Used(t)
      <4>1. MovesTo(t, "unlock")
        BY <2>0, <3>2 DEF MovesTo, Misses, settings, stamping, calls
      <4> QED BY <4>1 DEF Moves, Acts
    <3>3. CASE At(t, "flush") /\ fp = "closed" /\ Go(t, "crashed") /\ out' = out
               /\ swapped' = swapped
      <4>1. MovesTo(t, "crashed")
        BY <2>0, <3>3 DEF MovesTo, GoesTo, settings, stamping, calls
      <4> QED BY <4>1 DEF Moves, Acts
    <3> QED BY <2>3, <3>1, <3>2, <3>3 DEF LogWrite
  <2>4. CASE Enter(t, IF quiet THEN "file" ELSE "convert")
    <3>1. First(t) = IF quiet THEN "file" ELSE "convert"
      BY <2>0 DEF First
    <3> QED BY <2>0, <2>4, <3>1, EnterKind
  <2>5. CASE FileClose(t)
    <3>1. MovesTo(t, "idle") \/ MovesTo(t, "crashed")
      BY <2>0, <2>5 DEF FileClose, MovesTo, Closes, settings, stamping, calls
    <3> QED BY <3>1 DEF Moves, Acts
  <2> QED BY <2>0, <2>1, <2>2, <2>3, <2>4, <2>5, GateKind, ConvertKind, FormatKind, LeaveKind
          DEF LogStep
<1> QED BY <1>1, <1>2, <1>3, <1>4, <1>5, <1>6 DEF LogNext

\* The pieces on the screen, or where slog has its stream.
LEMMA PieceKind ==
  ASSUME NEW a \in Activities, UNCHANGED <<settings, stamping, calls, fp, lock>>,
         swapped' = IF lib = "slog" THEN swapped \ {a} ELSE swapped,
         NEW s, NEW to, NEW part, NEW stamp, s = Stream(a), lib = "slog" => fp # NULL,
         Go(a, to), Put(a, s, part, stamp),
         \/ pc[a] = "head" /\ to = "body" /\ part = "head"
            /\ stamp \in {call[a].stamp, Garbage}
         \/ pc[a] = "body" /\ call[a].kind # "raw" /\ to = "end" /\ part = "body"
            /\ stamp = NoTime
         \/ pc[a] = "body" /\ lib # "log" /\ call[a].kind = "raw" /\ part = "raw"
            /\ stamp = NoTime /\ to = IF lib = "slog" THEN "unlock" ELSE "file"
         \/ pc[a] = "end" /\ part = "end" /\ stamp = NoTime
            /\ to = IF lib = "slog" THEN "unlock" ELSE "file"
  PROVE  Acts(a)
<1>1. PrintsTo(a, to, s, part, stamp)
  BY DEF Put, Piece, PrintsTo, Steady, settings, stamping, calls
<1> QED BY <1>1 DEF Prints, Acts

LEMMA PrettyKinds ==
  ASSUME TypeOK, IdsInv, PrettyNext
  PROVE  Steps
<1>1. ASSUME NEW levels \in SUBSET Levels, NEW path \in {NULL, "file"},
             pretty_log_init(levels, path)
      PROVE  Steps
  <2>1. started = 0 /\ \A a \in Activities : call[a].id \in Nat
    BY <1>1 DEF pretty_log_init, TypeOK, CallRecords
  <2>2. \A a \in Activities : pc[a] \notin Calling
    BY <2>1 DEF IdsInv
  <2> QED BY <1>1, <2>2 DEF pretty_log_init, Steps, Sets, stamping, calls, TypeOK
<1>2. ASSUME NEW a \in Activities, PrettyCall(a) PROVE Steps
  <2>0. lib = "pretty_log"
    BY <1>2 DEF PrettyCall
  <2>1. Acts(a)
    BY <1>2, <2>0, BeginKind DEF PrettyCall, TypeOK, settings
  <2> QED BY <2>1 DEF Steps
<1>3. ASSUME NEW a \in Activities, PrettyStep(a) PROVE Steps
  <2> USE <1>3
  <2> SUFFICES Acts(a)
    BY DEF Steps
  <2>0. lib = "pretty_log"
    BY DEF PrettyStep
  <2>1. CASE PrettyScreen(a)
    <3> /\ UNCHANGED <<settings, stamping, calls, fp, lock, swapped>>
        /\ pc[a] \in {"head", "body", "end"} => Stream(a) = "screen"
      BY <2>0, <2>1 DEF PrettyScreen, Stream
    <3>1. CASE At(a, "head") /\ Go(a, "body") /\ Put(a, "screen", "head", ScreenStamp(a))
      BY <2>0, <3>1, PieceKind DEF ScreenStamp
    <3>2. CASE /\ At(a, "body") /\ call[a].kind = "raw"
               /\ Go(a, "file") /\ Put(a, "screen", "raw", NoTime)
      BY <2>0, <3>2, PieceKind
    <3>3. CASE /\ At(a, "body") /\ call[a].kind # "raw"
               /\ Go(a, "end") /\ Put(a, "screen", "body", NoTime)
      BY <2>0, <3>3, PieceKind
    <3>4. CASE At(a, "end") /\ Go(a, "file") /\ Put(a, "screen", "end", NoTime)
      BY <2>0, <3>4, PieceKind
    <3> QED BY <2>1, <3>1, <3>2, <3>3, <3>4 DEF PrettyScreen
  <2>2. CASE PrettyFile(a)
    <3>1. CASE out' = out
      <4>1. MovesTo(a, "unlock")
        BY <2>0, <2>2, <3>1 DEF PrettyFile, MovesTo, GoesTo, settings, stamping, calls
      <4> QED BY <4>1 DEF Moves, Acts
    <3>2. CASE fp = "file" /\ Put(a, "file", IF call[a].kind = "raw" THEN "raw" ELSE "line",
                                  call[a].stamp)
      <4>1. PrintsTo(a, "unlock", "file", IF call[a].kind = "raw" THEN "raw" ELSE "line",
                     call[a].stamp)
        BY <2>0, <2>2, <3>2 DEF PrettyFile, Put, Piece, PrintsTo, Steady, settings,
                           stamping, calls
      <4> QED BY <4>1 DEF Prints, Acts
    <3> QED BY <2>2, <3>1, <3>2 DEF PrettyFile
  <2>3. CASE Enter(a, IF call[a].kind = "raw" THEN "body" ELSE "head")
    <3>1. First(a) = IF call[a].kind = "raw" THEN "body" ELSE "head"
      BY <2>0 DEF First
    <3> QED BY <2>0, <2>3, <3>1, EnterKind
  <2> QED BY <2>0, <2>1, <2>2, <2>3, GateKind, ConvertKind, FormatKind, LeaveKind
          DEF PrettyStep
<1> QED BY <1>1, <1>2, <1>3 DEF PrettyNext

LEMMA SlogKinds ==
  ASSUME TypeOK, LockInv, SlogNext
  PROVE  Steps
<1>1. ASSUME NEW t \in Threads, InitCall(t) PROVE Steps
  <2>0. enabled' \subseteq Levels
    BY <1>1 DEF InitCall, Ctrl
  <2>1. CASE pc' = pc
    BY <1>1, <2>0, <2>1 DEF InitCall, Steps, Sets, stamping, calls, TypeOK
  <2>2. CASE pc' = [pc EXCEPT ![t] = "init"]
    <3>1. MovesTo(t, "init")
      BY <1>1, <2>0, <2>2 DEF InitCall, MovesTo, Opens, stamping, calls
    <3> QED BY <3>1 DEF Moves, Acts, Steps
  <2> QED BY <1>1, <2>1, <2>2 DEF InitCall
<1>2. ASSUME NEW t \in Threads, lib = "slog",
             InitLock(t) \/ InitOpen(t) \/ InitFailed(t) \/ InitUnlock(t)
      PROVE  Steps
  <2>1. \E to : MovesTo(t, to)
    <3>1. InitLock(t) => MovesTo(t, "open")
      BY <1>2 DEF InitLock, MovesTo, Opens, settings, stamping, calls
    <3>2. InitOpen(t) => MovesTo(t, "opened") \/ MovesTo(t, "failed")
      BY <1>2 DEF InitOpen, MovesTo, Opens, settings, stamping, calls
    <3>3. InitFailed(t) => MovesTo(t, "opened")
      BY <1>2 DEF InitFailed, MovesTo, Opens, settings, stamping, calls
    <3>4. InitUnlock(t) => MovesTo(t, "idle")
      BY <1>2 DEF InitUnlock, MovesTo, Opens, settings, stamping, calls
    <3> QED BY <1>2, <3>1, <3>2, <3>3, <3>4
  <2> QED BY <2>1 DEF Moves, Acts, Steps
<1>3. ASSUME NEW t \in Threads, InitLock(t) \/ InitOpen(t) \/ InitFailed(t) \/ InitUnlock(t)
      PROVE  lib = "slog"
  BY <1>3 DEF LockInv, InitLock, InitOpen, InitFailed, InitUnlock
<1>4. ASSUME NEW a \in Activities, SlogCall(a) PROVE Steps
  <2>0. lib = "slog"
    BY <1>4 DEF SlogCall
  <2>1. Acts(a)
    BY <1>4, <2>0, BeginKind DEF SlogCall, TypeOK, settings
  <2> QED BY <2>1 DEF Steps
<1>5. ASSUME NEW a \in Activities, SlogStep(a) PROVE Steps
  <2> USE <1>5
  <2> SUFFICES Acts(a)
    BY DEF Steps
  <2>0. lib = "slog"
    BY DEF SlogStep
  <2>1. CASE SlogPrint(a)
    <3> UNCHANGED <<settings, stamping, calls, fp, lock>> /\ Stream(a) = fp
        /\ swapped' = swapped \ {a}
      BY <2>0, <2>1 DEF SlogPrint, Used, Stream
    <3>1. CASE /\ At(a, "head") /\ fp # NULL /\ Go(a, "body")
               /\ Put(a, fp, "head", call[a].stamp)
      BY <2>0, <3>1, PieceKind
    <3>2. CASE /\ At(a, "body") /\ fp # NULL /\ call[a].kind = "raw" /\ Go(a, "unlock")
               /\ Put(a, fp, "raw", NoTime)
      BY <2>0, <3>2, PieceKind
    <3>3. CASE /\ At(a, "body") /\ fp # NULL /\ call[a].kind = "line" /\ Go(a, "end")
               /\ Put(a, fp, "body", NoTime)
      BY <2>0, <3>3, PieceKind
    <3>4. CASE At(a, "end") /\ fp # NULL /\ Go(a, "unlock") /\ Put(a, fp, "end", NoTime)
      BY <2>0, <3>4, PieceKind
    <3>5. CASE /\ \E step \in {"head", "body", "end"} : At(a, step)
               /\ fp = NULL /\ Go(a, "crashed") /\ out' = out
      <4>1. MovesTo(a, "crashed")
        BY <2>0, <3>5 DEF MovesTo, Misses, Used, settings, stamping, calls
      <4> QED BY <4>1 DEF Moves, Acts
    <3> QED BY <2>1, <3>1, <3>2, <3>3, <3>4, <3>5 DEF SlogPrint
  <2>2. CASE Enter(a, "check")
    <3>1. First(a) = "check"
      BY <2>0 DEF First
    <3> QED BY <2>0, <2>2, <3>1, EnterKind
  <2>3. CASE Check(a)
    <3>1. MovesTo(a, IF fp = NULL THEN "default" ELSE Printing(a))
      BY <2>0, <2>3 DEF Check, MovesTo, GoesTo, settings, stamping, calls
    <3> QED BY <3>1 DEF Moves, Acts
  <2>4. CASE Default(a)
    <3>1. MovesTo(a, Printing(a))
      BY <2>0, <2>4 DEF Default, MovesTo, Defaults, settings, stamping, calls
    <3> QED BY <3>1 DEF Moves, Acts
  <2> QED BY <2>0, <2>1, <2>2, <2>3, <2>4, GateKind, ConvertKind, FormatKind, LeaveKind
          DEF SlogStep
<1> QED BY <1>1, <1>2, <1>3, <1>4, <1>5 DEF SlogNext

LEMMA StepKinds ==
  ASSUME TypeOK, IdsInv, LockInv, [Next]_vars
  PROVE  Steps
BY LogKinds, PrettyKinds, SlogKinds DEF Next, Steps

-----------------------------------------------------------------------------
(* Types, and the numbers of the calls.                                    *)

LEMMA Constants ==
  /\ 0 \in Times /\ NoTime \in Stamps /\ NoCall \in CallRecords
  /\ NULL \notin Activities /\ Handler \in Activities /\ Threads \subseteq Activities
BY DEF Times, Stamps, NoTime, NoCall, CallRecords

\* What an activity prints is a piece.
LEMMA PieceType ==
  ASSUME TypeOK, IdsInv, NEW a \in Activities, NEW to, NEW s, NEW part, NEW stamp,
         PrintsTo(a, to, s, part, stamp)
  PROVE  /\ Piece(a, part, stamp) \in Pieces /\ s \in {"screen", "file", "closed"}
         /\ to \in PcSteps /\ pc[a] \in Calling
<1>1. pc[a] \in Calling /\ to \in PcSteps
  BY DEF PrintsTo, Calling, PcSteps
<1>2. call[a] \in CallRecords /\ call[a].id \in 1 .. MaxCalls
  BY <1>1 DEF TypeOK, CallRecords, IdsInv
<1>3. stamp \in Stamps
  <2>1. stamp \in {call[a].stamp, NoTime, Garbage}
    BY DEF PrintsTo
  <2>2. Garbage \in Stamps
    BY <1>2 DEF Garbage, Stamps, Times
  <2>3. call[a].stamp \in Stamps
    BY <1>2 DEF CallRecords
  <2> QED BY <2>1, <2>2, <2>3, Constants
<1>4. part \in {"head", "body", "end", "raw", "line"}
  BY DEF PrintsTo
<1>5. Piece(a, part, stamp) \in Pieces
  BY <1>2, <1>3, <1>4 DEF Piece, Pieces, CallRecords
<1>6. s \in {"screen", "file", "closed"}
  BY DEF PrintsTo, Stream, TypeOK
<1> QED BY <1>1, <1>5, <1>6

\* What the streams hold when it has.
LEMMA Printed ==
  ASSUME TypeOK, IdsInv, NEW a \in Activities, NEW to, NEW s, NEW part, NEW stamp,
         PrintsTo(a, to, s, part, stamp)
  PROVE  /\ DOMAIN out = {"screen", "file"} /\ DOMAIN out' = {"screen", "file"}
         /\ \A r \in {"screen", "file"} :
              /\ out[r] \in Seq(Pieces) /\ DOMAIN out[r] = 1 .. Len(out[r])
              /\ r # s => out'[r] = out[r]
              /\ r = s => /\ Len(out'[r]) = Len(out[r]) + 1
                          /\ DOMAIN out'[r] = 1 .. Len(out[r]) + 1
                          /\ \A k \in DOMAIN out[r] : out'[r][k] = out[r][k]
                          /\ out'[r][Len(out[r]) + 1] = Piece(a, part, stamp)
         /\ \A r \in {"screen", "file"} : \A k \in DOMAIN out'[r] :
              \/ k \in DOMAIN out[r] /\ out'[r][k] = out[r][k]
              \/ r = s /\ k = Len(out[r]) + 1 /\ out'[r][k] = Piece(a, part, stamp)
<1> DEFINE p == Piece(a, part, stamp)
<1>1. p \in Pieces
  BY PieceType
<1>2. DOMAIN out = {"screen", "file"} /\ \A r \in {"screen", "file"} : out[r] \in Seq(Pieces)
  BY DEF TypeOK
<1>3. /\ DOMAIN out' = {"screen", "file"}
      /\ \A r \in {"screen", "file"} : out'[r] = IF r = s THEN Append(out[r], p) ELSE out[r]
  BY <1>2 DEF PrintsTo
<1> HIDE DEF p
<1>4. \A r \in {"screen", "file"} :
        /\ DOMAIN out[r] = 1 .. Len(out[r]) /\ Len(out[r]) \in Nat
        /\ Len(Append(out[r], p)) = Len(out[r]) + 1
        /\ DOMAIN Append(out[r], p) = 1 .. Len(out[r]) + 1
        /\ \A k \in 1 .. Len(out[r]) : Append(out[r], p)[k] = out[r][k]
        /\ Append(out[r], p)[Len(out[r]) + 1] = p
  BY <1>1, <1>2, AppendProperties, LenProperties
<1>5. \A r \in {"screen", "file"} : \A k \in DOMAIN out'[r] :
        \/ k \in DOMAIN out[r] /\ out'[r][k] = out[r][k]
        \/ r = s /\ k = Len(out[r]) + 1 /\ out'[r][k] = p
  <2> TAKE r \in {"screen", "file"}
  <2>1. CASE r = s
    <3>1. out'[r] = Append(out[r], p)
      BY <1>3, <2>1
    <3>2. ASSUME NEW k \in 1 .. Len(out[r]) + 1
          PROVE  k \in 1 .. Len(out[r]) \/ k = Len(out[r]) + 1
      BY <1>4
    <3> QED BY <1>4, <2>1, <3>1, <3>2
  <2>2. CASE r # s
    BY <1>3, <2>2
  <2> QED BY <2>1, <2>2
<1> QED BY <1>2, <1>3, <1>4, <1>5 DEF p

LEMMA TypesStep ==
  ASSUME TypeOK, IdsInv, Steps, clock' \in Times, tm' \in Times
  PROVE  TypeOK'
<1> USE Constants
<1>1. CASE UNCHANGED vars
  BY <1>1 DEF vars, TypeOK, settings, stamping, calls
<1>2. CASE Sets
  BY <1>2 DEF Sets, Swap, TypeOK
<1>3. ASSUME NEW a \in Activities, Begins(a) PROVE TypeOK'
  <2>1. PICK step, l, k : BeginsAt(a, step, l, k)
    BY <1>3 DEF Begins
  <2>2. [NoCall EXCEPT !.id = started + 1, !.level = l, !.kind = k] \in CallRecords
    <3>1. started + 1 \in 0 .. MaxCalls
      BY <2>1 DEF BeginsAt, TypeOK
    <3> QED BY <2>1, <3>1 DEF BeginsAt, CallRecords
  <2>3. call' \in [Activities -> CallRecords]
    BY <2>1, <2>2 DEF BeginsAt, TypeOK
  <2>4. pc' \in [Activities -> PcSteps]
    BY <2>1 DEF BeginsAt, TypeOK, PcSteps
  <2> QED BY <2>1, <2>3, <2>4 DEF BeginsAt, Steady, Swap, TypeOK
<1>4. ASSUME NEW a \in Activities, Returns(a) PROVE TypeOK'
  <2>1. call' \in [Activities -> CallRecords] /\ pc' \in [Activities -> PcSteps]
    BY <1>4 DEF Returns, TypeOK, PcSteps
  <2> QED BY <1>4, <2>1 DEF Returns, Steady, TypeOK
<1>5. ASSUME NEW a \in Activities, Converts(a) PROVE TypeOK'
  <2>1. call' \in [Activities -> CallRecords]
    BY <1>5 DEF Converts, TypeOK, CallRecords
  <2>2. pc' \in [Activities -> PcSteps]
    BY <1>5 DEF Converts, TypeOK, PcSteps
  <2>3. crossed' \subseteq 1 .. MaxCalls
    BY <1>5 DEF Converts, TypeOK, CallRecords, IdsInv, Calling
  <2> QED BY <1>5, <2>1, <2>2, <2>3 DEF Converts, settings, TypeOK
<1>6. ASSUME NEW a \in Activities, Formats(a) PROVE TypeOK'
  <2>1. PICK to, x : FormatsTo(a, to, x)
    BY <1>6 DEF Formats
  <2>2. x \in Stamps
    BY <2>1 DEF FormatsTo, TypeOK, CallRecords, Stamps
  <2>3. call' \in [Activities -> CallRecords]
    BY <2>1, <2>2 DEF FormatsTo, TypeOK, CallRecords
  <2>4. pc' \in [Activities -> PcSteps]
    BY <2>1 DEF FormatsTo, TypeOK, PcSteps
  <2> QED BY <2>1, <2>3, <2>4 DEF FormatsTo, Steady, TypeOK
<1>7. ASSUME NEW a \in Activities, Moves(a) PROVE TypeOK'
  <2>1. PICK to : MovesTo(a, to)
    BY <1>7 DEF Moves
  <2>2. to \in PcSteps
    BY <2>1 DEF MovesTo, GoesTo, Misses, Locks, First, Defaults, Printing, Opens, Closes, PcSteps,
                TypeOK
  <2>3. pc' \in [Activities -> PcSteps]
    BY <2>1, <2>2 DEF MovesTo, TypeOK
  <2>4. /\ lock' \in Threads \cup {NULL} /\ fp' \in {NULL, "file", "screen", "closed"}
        /\ inits' \in 0 .. MaxInits[lib] /\ enabled' \subseteq Levels
    BY <2>1 DEF MovesTo, GoesTo, Misses, Locks, Acquire, Defaults, Opens, Closes, TypeOK
  <2>5. swapped' \subseteq Activities
    BY <2>1 DEF MovesTo, GoesTo, Misses, Locks, Defaults, Opens, Closes, Swap, Used, TypeOK
  <2> QED BY <2>1, <2>3, <2>4, <2>5 DEF MovesTo, TypeOK
<1>8. ASSUME NEW a \in Activities, Prints(a) PROVE TypeOK'
  <2>1. PICK to, s, part, stamp : PrintsTo(a, to, s, part, stamp)
    BY <1>8 DEF Prints
  <2>2. pc' \in [Activities -> PcSteps]
    BY <2>1, PieceType DEF PrintsTo, TypeOK
  <2>3. Piece(a, part, stamp) \in Pieces
    BY <2>1, PieceType
  <2>4. \A r \in {"screen", "file"} : Append(out[r], Piece(a, part, stamp)) \in Seq(Pieces)
    BY <2>3, AppendProperties DEF TypeOK
  <2>5. out' \in [{"screen", "file"} -> Seq(Pieces)]
    BY <2>1, <2>4 DEF PrintsTo, TypeOK
  <2> QED BY <2>1, <2>2, <2>5 DEF PrintsTo, Steady, TypeOK
<1> QED BY <1>1, <1>2, <1>3, <1>4, <1>5, <1>6, <1>7, <1>8 DEF Steps, Acts

LEMMA IdsStep ==
  ASSUME TypeOK, LockInv, IdsInv, Steps
  PROVE  IdsInv'
<1> USE Constants
<1>1. CASE UNCHANGED vars
  BY <1>1 DEF vars, IdsInv, settings, stamping, calls
<1>2. CASE Sets
  BY <1>2 DEF Sets, IdsInv
<1>3. ASSUME NEW a \in Activities, Begins(a) PROVE IdsInv'
  <2>1. PICK step, l, k : BeginsAt(a, step, l, k)
    BY <1>3 DEF Begins
  <2>2. /\ call'[a].id = started + 1
        /\ \A b \in Activities \ {a} : call'[b] = call[b] /\ pc'[b] = pc[b]
        /\ pc'[a] \in {"convert", "gate"}
    BY <2>1 DEF BeginsAt, TypeOK, NoCall
  <2>3. \A b \in Activities : call[b].id \in 0 .. started
    BY DEF TypeOK, CallRecords, IdsInv
  <2>4. \A s \in DOMAIN out : \A k1 \in DOMAIN out[s] : out[s][k1].id \in 0 .. started
    <3> TAKE s \in DOMAIN out
    <3> TAKE k1 \in DOMAIN out[s]
    <3>1. out[s] \in Seq(Pieces)
      BY DEF TypeOK
    <3>2. out[s][k1] \in Pieces
      BY <3>1, ElementOfSeq
    <3> QED BY <3>2 DEF IdsInv, Pieces
  <2>5. out' = out /\ started' = started + 1 /\ started \in Nat
    BY <2>1 DEF BeginsAt, TypeOK
  <2> QED BY <2>2, <2>3, <2>4, <2>5 DEF IdsInv, Calling
<1>4. ASSUME NEW a \in Activities, Returns(a) PROVE IdsInv'
  <2>1. /\ call'[a] = NoCall /\ pc'[a] = "idle"
        /\ \A b \in Activities \ {a} : call'[b] = call[b] /\ pc'[b] = pc[b]
        /\ out' = out /\ started' = started /\ started \in Nat
    BY <1>4 DEF Returns, TypeOK
  <2>2. NoCall.id = 0
    BY DEF NoCall
  <2>3. \A b \in Activities : call[b].id \in 0 .. started
    BY DEF TypeOK, CallRecords, IdsInv
  <2> QED BY <2>1, <2>2, <2>3 DEF IdsInv, Calling
<1>5. ASSUME NEW a \in Activities, Converts(a) PROVE IdsInv'
  <2>1. \A b \in Activities : call'[b].id = call[b].id
    BY <1>5 DEF Converts, TypeOK, CallRecords
  <2>2. \A b \in Activities \ {a} : call'[b] = call[b] /\ pc'[b] = pc[b]
    BY <1>5 DEF Converts, TypeOK
  <2>3. /\ pc[a] = "convert" /\ pc'[a] = "date"
        /\ out' = out /\ started' = started
    BY <1>5 DEF Converts, TypeOK
  <2> QED BY <2>1, <2>2, <2>3 DEF IdsInv, Calling
<1>6. ASSUME NEW a \in Activities, Formats(a) PROVE IdsInv'
  <2>0. PICK to, x : FormatsTo(a, to, x)
    BY <1>6 DEF Formats
  <2>1. \A b \in Activities : call'[b].id = call[b].id
    BY <2>0 DEF FormatsTo, TypeOK, CallRecords
  <2>2. \A b \in Activities \ {a} : call'[b] = call[b] /\ pc'[b] = pc[b]
    BY <2>0 DEF FormatsTo, TypeOK
  <2>3. /\ pc[a] \in {"date", "time", "file"} /\ pc'[a] \in {"time", "gate", "head", "fhead"}
        /\ out' = out /\ started' = started
    BY <2>0 DEF FormatsTo, TypeOK
  <2> QED BY <2>1, <2>2, <2>3 DEF IdsInv, Calling
<1>7. ASSUME NEW a \in Activities, Moves(a) PROVE IdsInv'
  <2>0. PICK to : MovesTo(a, to)
    BY <1>7 DEF Moves
  <2>1. call' = call /\ out' = out /\ started' = started /\ pc' = [pc EXCEPT ![a] = to]
    BY <2>0 DEF MovesTo
  <2>2. \/ pc[a] \in Calling /\ to \in Calling \cup {"crashed"}
        \/ /\ pc[a] \in {"idle", "init", "open", "failed", "fclose", "opened"}
           /\ to \in {"init", "open", "failed", "opened", "fclose", "idle", "crashed"}
    BY <2>0 DEF MovesTo, GoesTo, Misses, Locks, First, Defaults, Printing, Opens, Closes, Calling,
                TypeOK
  <2>3. \A b \in Activities : pc'[b] = IF b = a THEN to ELSE pc[b]
    BY <2>1 DEF TypeOK
  <2> QED BY <2>1, <2>2, <2>3 DEF IdsInv, Calling
<1>8. ASSUME NEW a \in Activities, Prints(a) PROVE IdsInv'
  <2>0. PICK to, s, part, stamp : PrintsTo(a, to, s, part, stamp)
    BY <1>8 DEF Prints
  <2>1. call' = call /\ started' = started /\ pc[a] \in Calling
        /\ to \in {"body", "end", "unlock", "file", "fbody", "fend", "flush"}
    BY <2>0 DEF PrintsTo, Calling
  <2>2. \A b \in Activities : pc'[b] = IF b = a THEN to ELSE pc[b]
    BY <2>0 DEF PrintsTo, TypeOK
  <2>3. /\ DOMAIN out' = DOMAIN out
        /\ \A r \in DOMAIN out : \A k \in DOMAIN out'[r] :
             \/ k \in DOMAIN out[r] /\ out'[r][k] = out[r][k]
             \/ out'[r][k] = Piece(a, part, stamp)
    BY <2>0, Printed
  <2>4. Piece(a, part, stamp).id = call[a].id
    BY DEF Piece
  <2> QED BY <2>1, <2>2, <2>3, <2>4 DEF IdsInv, Calling
<1> QED BY <1>1, <1>2, <1>3, <1>4, <1>5, <1>6, <1>7, <1>8 DEF Steps, Acts

-----------------------------------------------------------------------------
(* The mutex and the clock.                                                *)

\* Where a thread is when it moves on, and what becomes of the mutex.
LEMMA LockStep ==
  ASSUME TypeOK, LockInv, Steps
  PROVE  LockInv'
<1> USE Constants
<1>1. CASE UNCHANGED vars
  BY <1>1 DEF vars, LockInv, Inside, settings, stamping, calls
<1>2. CASE Sets
  BY <1>2 DEF Sets, LockInv, Inside, Quiescent
<1>3. ASSUME NEW a \in Activities, Begins(a) PROVE LockInv'
  <2>1. PICK step, l, k : BeginsAt(a, step, l, k)
    BY <1>3 DEF Begins
  <2> QED BY <2>1 DEF BeginsAt, Steady, LockInv, Inside, TypeOK
<1>4. ASSUME NEW a \in Activities, Returns(a) PROVE LockInv'
  BY <1>4 DEF Returns, Steady, LockInv, Inside, TypeOK
<1>5. ASSUME NEW a \in Activities, Converts(a) PROVE LockInv'
  BY <1>5 DEF Converts, settings, LockInv, Inside, TypeOK
<1>6. ASSUME NEW a \in Activities, Formats(a) PROVE LockInv'
  <2>1. PICK to, x : FormatsTo(a, to, x)
    BY <1>6 DEF Formats
  <2> QED BY <2>1 DEF FormatsTo, Steady, LockInv, Inside, TypeOK
<1>7. ASSUME NEW a \in Activities, Moves(a) PROVE LockInv'
  <2>1. PICK to : MovesTo(a, to)
    BY <1>7 DEF Moves
  <2>2. lib' = lib /\ \A b \in Activities : pc'[b] = IF b = a THEN to ELSE pc[b]
    BY <2>1 DEF MovesTo, TypeOK
  <2>3. CASE GoesTo(a, to)
    BY <2>2, <2>3 DEF GoesTo, Printing, LockInv, Inside, TypeOK
  <2>4. CASE Locks(a, to)
    BY <2>2, <2>4 DEF Locks, Acquire, First, LockInv, Inside, TypeOK
  <2>5. CASE Defaults(a, to)
    BY <2>2, <2>5 DEF Defaults, Printing, LockInv, Inside, TypeOK
  <2>6. CASE Opens(a, to)
    BY <2>2, <2>6 DEF Opens, LockInv, Inside, TypeOK
  <2>7. CASE Closes(a, to)
    BY <2>2, <2>7 DEF Closes, LockInv, Inside, TypeOK
  <2>8. CASE Misses(a, to)
    BY <2>2, <2>8 DEF Misses, LockInv, Inside, TypeOK
  <2> QED BY <2>1, <2>3, <2>4, <2>5, <2>6, <2>7, <2>8 DEF MovesTo
<1>8. ASSUME NEW a \in Activities, Prints(a) PROVE LockInv'
  <2>1. PICK to, s, part, stamp : PrintsTo(a, to, s, part, stamp)
    BY <1>8 DEF Prints
  <2>2. lib' = lib /\ lock' = lock /\ \A b \in Activities : pc'[b] = IF b = a THEN to ELSE pc[b]
    BY <2>1 DEF PrintsTo, Steady, TypeOK
  <2>3. pc[a] \in {"head", "body", "end", "file", "fhead", "fbody", "fend"}
        /\ to \in {"body", "end", "unlock", "file", "fbody", "fend", "flush"}
    BY <2>1 DEF PrintsTo
  <2> QED BY <2>2, <2>3 DEF LockInv, Inside
<1> QED BY <1>1, <1>2, <1>3, <1>4, <1>5, <1>6, <1>7, <1>8 DEF Steps, Acts

LEMMA UnreadFinite ==
  ASSUME TypeOK, IdsInv
  PROVE  /\ Unread \subseteq 1 .. started /\ IsFiniteSet(Unread)
         /\ Cardinality(Unread) \in Nat
<1>1. Unread \subseteq 1 .. started
  BY DEF Unread, TypeOK, CallRecords, IdsInv
<1>2. IsFiniteSet(1 .. started)
  BY FS_Interval DEF TypeOK
<1> QED BY <1>1, <1>2, FS_Subset, FS_CardinalityType

\* What is unread after a step that leaves the clock alone.
LEMMA ClockKeeps ==
  ASSUME TypeOK, IdsInv, ClockInv, UNCHANGED <<clock, tm, lib>>, started' \in Nat,
         \/ Unread' \subseteq Unread /\ started <= started'
         \/ Unread' \subseteq Unread \cup {started + 1} /\ started' = started + 1,
         \A a \in Activities :
           /\ call'[a].at <= clock
           /\ pc'[a] = "convert" => call'[a].at = 0
           /\ lib = "log" /\ pc'[a] \in {"gate", "lock"} => call'[a].at = 0
  PROVE  ClockInv'
<1>1. Cardinality(Unread') \in Nat
      /\ Cardinality(Unread') <= Cardinality(Unread) + started' - started
  <2>1. CASE Unread' \subseteq Unread /\ started <= started'
    BY <2>1, UnreadFinite, FS_Subset, FS_CardinalityType DEF TypeOK
  <2>2. CASE Unread' \subseteq Unread \cup {started + 1} /\ started' = started + 1
    <3>1. /\ IsFiniteSet(Unread \cup {started + 1})
          /\ Cardinality(Unread \cup {started + 1}) = Cardinality(Unread) + 1
      <4>1. started + 1 \notin Unread
        BY UnreadFinite DEF TypeOK
      <4> QED BY <4>1, UnreadFinite, FS_AddElement
    <3>2. Cardinality(Unread') \in Nat /\ Cardinality(Unread') <= Cardinality(Unread) + 1
      BY <2>2, <3>1, FS_Subset, FS_CardinalityType
    <3> QED BY <2>2, <3>2, UnreadFinite DEF TypeOK
  <2> QED BY <2>1, <2>2
<1>2. clock' + Cardinality(Unread') <= started'
  <2>1. clock' = clock /\ clock \in Nat /\ started \in Nat
    BY DEF TypeOK, Times
  <2>2. clock + Cardinality(Unread) <= started
    BY DEF ClockInv
  <2> QED BY <1>1, <2>1, <2>2, UnreadFinite
<1> QED BY <1>2 DEF ClockInv

LEMMA ClockStep ==
  ASSUME TypeOK, IdsInv, ClockInv, Steps
  PROVE  ClockInv' /\ clock' \in Times /\ tm' \in Times
<1> USE Constants
<1>0. ASSUME UNCHANGED <<clock, tm>>
      PROVE  clock' \in Times /\ tm' \in Times
  BY <1>0 DEF TypeOK
<1>1. CASE UNCHANGED vars
  BY <1>0, <1>1 DEF vars, ClockInv, Unread, settings, stamping, calls
<1>2. CASE Sets
  <2>1. Unread' = Unread
    BY <1>2 DEF Sets, Unread
  <2> QED BY <1>0, <1>2, <2>1 DEF Sets, ClockInv
<1>3. ASSUME NEW a \in Activities, Begins(a) PROVE ClockInv' /\ UNCHANGED <<clock, tm>>
  <2>1. PICK step, l, k : BeginsAt(a, step, l, k)
    BY <1>3 DEF Begins
  <2>2. /\ call'[a].id = started + 1 /\ call'[a].at = 0
        /\ \A b \in Activities \ {a} : call'[b] = call[b] /\ pc'[b] = pc[b]
        /\ pc'[a] \in {"convert", "gate"}
    BY <2>1 DEF BeginsAt, TypeOK, NoCall
  <2>3. Unread' \subseteq Unread \cup {started + 1}
    BY <2>2 DEF Unread
  <2>4. UNCHANGED <<clock, tm, lib>> /\ started' \in Nat /\ started' = started + 1
    BY <2>1 DEF BeginsAt, Steady, TypeOK
  <2>5. ASSUME NEW b \in Activities
        PROVE  /\ call'[b].at <= clock
               /\ pc'[b] = "convert" => call'[b].at = 0
               /\ lib = "log" /\ pc'[b] \in {"gate", "lock"} => call'[b].at = 0
    BY <2>2 DEF ClockInv, TypeOK, Times
  <2> QED BY <2>3, <2>4, <2>5, ClockKeeps
<1>4. ASSUME NEW a \in Activities, Returns(a) PROVE ClockInv' /\ UNCHANGED <<clock, tm>>
  <2>1. /\ call'[a] = NoCall /\ pc'[a] = "idle"
        /\ \A b \in Activities \ {a} : call'[b] = call[b] /\ pc'[b] = pc[b]
        /\ UNCHANGED <<clock, tm, lib>> /\ started' = started /\ started \in Nat
    BY <1>4 DEF Returns, Steady, TypeOK
  <2>2. NoCall.at = 0 /\ NoCall.id = 0
    BY DEF NoCall
  <2>3. Unread' \subseteq Unread
    BY <2>1, <2>2 DEF Unread
  <2>4. ASSUME NEW b \in Activities
        PROVE  /\ call'[b].at <= clock
               /\ pc'[b] = "convert" => call'[b].at = 0
               /\ lib = "log" /\ pc'[b] \in {"gate", "lock"} => call'[b].at = 0
    BY <2>1, <2>2 DEF ClockInv, TypeOK, Times
  <2> QED BY <2>1, <2>3, <2>4, ClockKeeps
<1>5. ASSUME NEW a \in Activities, Converts(a)
      PROVE  ClockInv' /\ clock' \in Times /\ tm' \in Times
  <2>1. /\ \A b \in Activities \ {a} : call'[b] = call[b] /\ pc'[b] = pc[b]
        /\ pc[a] = "convert" /\ pc'[a] = "date"
        /\ UNCHANGED <<lib, started>> /\ clock' = clock + 1 /\ tm' = clock + 1
        /\ call'[a].at = clock + 1 /\ call'[a].id = call[a].id
    BY <1>5 DEF Converts, settings, TypeOK, CallRecords
  <2>2. call[a].id \in Unread /\ clock \in Nat /\ started \in 0 .. MaxCalls
        /\ \A b \in Activities : call[b].at \in Nat
    <3>1. call[a].id > 0 /\ call[a].at = 0
      BY <2>1 DEF IdsInv, Calling, ClockInv
    <3>2. clock \in Nat /\ started \in 0 .. MaxCalls
      BY DEF TypeOK, Times
    <3>3. \A b \in Activities : call[b].at \in Nat
      BY DEF TypeOK, CallRecords, Times
    <3> QED BY <3>1, <3>2, <3>3 DEF Unread
  <2>3. Unread' \subseteq Unread \ {call[a].id}
    <3>1. \A b \in Activities : call[b].id = call[a].id => b = a
      <4>1. call[a].id > 0
        BY <2>1 DEF IdsInv, Calling
      <4> QED BY <4>1 DEF IdsInv
    <3>2. call'[a].at > 0
      BY <2>1, <2>2
    <3> QED BY <2>1, <3>1, <3>2 DEF Unread
  <2>4. /\ IsFiniteSet(Unread \ {call[a].id})
        /\ Cardinality(Unread \ {call[a].id}) = Cardinality(Unread) - 1
    BY <2>2, UnreadFinite, FS_RemoveElement
  <2>5. Cardinality(Unread') \in Nat /\ Cardinality(Unread') <= Cardinality(Unread) - 1
    BY <2>3, <2>4, FS_Subset, FS_CardinalityType, UnreadFinite
  <2>6. clock' + Cardinality(Unread') <= started' /\ clock' \in Nat /\ clock' <= started'
    BY <2>1, <2>2, <2>5, UnreadFinite DEF ClockInv
  <2>7. \A b \in Activities : call'[b].at <= clock'
    BY <2>1, <2>2 DEF ClockInv
  <2>8. clock' \in Times /\ tm' \in Times
    BY <2>1, <2>2, <2>6 DEF Times
  <2> QED BY <2>1, <2>2, <2>6, <2>7, <2>8 DEF ClockInv
<1>6. ASSUME NEW a \in Activities, Formats(a) PROVE ClockInv' /\ UNCHANGED <<clock, tm>>
  <2>1. PICK to, x : FormatsTo(a, to, x)
    BY <1>6 DEF Formats
  <2>2. \A b \in Activities : call'[b].id = call[b].id /\ call'[b].at = call[b].at
    BY <2>1 DEF FormatsTo, TypeOK, CallRecords
  <2>3. \A b \in Activities : pc'[b] = IF b = a THEN to ELSE pc[b]
    BY <2>1 DEF FormatsTo, TypeOK
  <2>4. /\ UNCHANGED <<clock, tm, lib, started>>
        /\ to # "convert" /\ to # "lock" /\ (lib = "log" => to # "gate")
    BY <2>1 DEF FormatsTo, Steady
  <2>5. Unread' = Unread
    BY <2>2 DEF Unread
  <2> QED BY <2>2, <2>3, <2>4, <2>5 DEF ClockInv
<1>7. ASSUME NEW a \in Activities, Moves(a) PROVE ClockInv' /\ UNCHANGED <<clock, tm>>
  <2>1. PICK to : MovesTo(a, to)
    BY <1>7 DEF Moves
  <2>2. \A b \in Activities : pc'[b] = IF b = a THEN to ELSE pc[b]
    BY <2>1 DEF MovesTo, TypeOK
  <2>3. UNCHANGED <<clock, tm, lib, started, call>>
    BY <2>1 DEF MovesTo
  <2>4. Unread' = Unread
    BY <2>3 DEF Unread
  <2>5. /\ to \in {"convert", "gate"} => lib = "log" /\ pc[a] = "lock"
        /\ to = "lock" => pc[a] = "gate"
    BY <2>1 DEF MovesTo, GoesTo, Misses, Locks, First, Defaults, Printing, Opens, Closes,
                TypeOK
  <2> QED BY <2>2, <2>3, <2>4, <2>5 DEF ClockInv
<1>8. ASSUME NEW a \in Activities, Prints(a) PROVE ClockInv' /\ UNCHANGED <<clock, tm>>
  <2>1. PICK to, s, part, stamp : PrintsTo(a, to, s, part, stamp)
    BY <1>8 DEF Prints
  <2>2. \A b \in Activities : pc'[b] = IF b = a THEN to ELSE pc[b]
    BY <2>1 DEF PrintsTo, TypeOK
  <2>3. UNCHANGED <<clock, tm, lib, started, call>>
        /\ to \in {"body", "end", "unlock", "file", "fbody", "fend", "flush"}
    BY <2>1 DEF PrintsTo, Steady
  <2>4. Unread' = Unread
    BY <2>3 DEF Unread
  <2> QED BY <2>2, <2>3, <2>4 DEF ClockInv
<1> QED BY <1>0, <1>1, <1>2, <1>3, <1>4, <1>5, <1>6, <1>7, <1>8 DEF Steps, Acts

-----------------------------------------------------------------------------
(* The stamps.                                                             *)

\* What TimeInv asks of one activity.
StampOK(a) ==
  /\ pc[a] \in {"date", "time"} => tm = call[a].at \/ Crossed(a)
  /\ pc[a] = "time" => call[a].stamp = <<call[a].at, 0>> \/ Crossed(a)
  /\ pc[a] \in {"gate", "lock", "check", "default", "head", "body", "end",
                "file", "fhead"} =>
       call[a].stamp \in {NoTime, <<call[a].at, call[a].at>>} \/ Crossed(a)
  /\ lib = "log" /\ ~quiet /\ pc[a] \in {"head", "body", "end", "file"} =>
       tm = call[a].at

\* An activity that does nothing keeps it, while the clock stands still.
LEMMA StampKept ==
  ASSUME NEW b \in Activities, StampOK(b), pc'[b] = pc[b], call'[b] = call[b],
         tm' = tm, lib' = lib, crossed' = crossed,
         quiet' = quiet \/ pc[b] = "idle"
  PROVE  StampOK(b)'
BY DEF StampOK, Crossed

LEMMA StampsStep ==
  ASSUME TypeOK, LockInv, \A a \in Activities : StampOK(a), Steps
  PROVE  \A a \in Activities : StampOK(a)'
<1> USE Constants
<1>1. CASE UNCHANGED vars
  BY <1>1 DEF vars, StampOK, Crossed, settings, stamping, calls
<1>2. CASE Sets
  BY <1>2, StampKept DEF Sets, Quiescent
<1>3. ASSUME NEW a \in Activities, Begins(a) PROVE \A b \in Activities : StampOK(b)'
  <2>1. PICK step, l, k : BeginsAt(a, step, l, k)
    BY <1>3 DEF Begins
  <2>2. /\ call'[a].stamp = NoTime /\ pc'[a] \in {"convert", "gate"}
        /\ \A b \in Activities \ {a} : call'[b] = call[b] /\ pc'[b] = pc[b]
    BY <2>1 DEF BeginsAt, TypeOK, NoCall
  <2>3. UNCHANGED <<tm, lib, crossed, quiet>>
    BY <2>1 DEF BeginsAt, Steady
  <2>4. StampOK(a)'
    BY <2>2 DEF StampOK
  <2> QED BY <2>2, <2>3, <2>4, StampKept
<1>4. ASSUME NEW a \in Activities, Returns(a) PROVE \A b \in Activities : StampOK(b)'
  <2>1. /\ pc'[a] = "idle" /\ UNCHANGED <<tm, lib, crossed, quiet>>
        /\ \A b \in Activities \ {a} : call'[b] = call[b] /\ pc'[b] = pc[b]
    BY <1>4 DEF Returns, Steady, TypeOK
  <2>2. StampOK(a)'
    BY <2>1 DEF StampOK
  <2> QED BY <2>1, <2>2, StampKept
<1>5. ASSUME NEW a \in Activities, Converts(a) PROVE \A b \in Activities : StampOK(b)'
  <2>1. /\ pc[a] = "convert" /\ pc'[a] = "date" /\ UNCHANGED <<lib, quiet>>
        /\ tm' = clock + 1 /\ call'[a].at = clock + 1
        /\ \A b \in Activities \ {a} : call'[b] = call[b] /\ pc'[b] = pc[b]
    BY <1>5 DEF Converts, settings, TypeOK, CallRecords
  <2>2. StampOK(a)'
    BY <2>1 DEF StampOK
  <2>3. ASSUME NEW b \in Activities \ {a} PROVE StampOK(b)'
    <3>1. Crossed(b) => Crossed(b)'
      BY <1>5, <2>1 DEF Converts, Crossed
    <3>2. lib = "log" => pc[b] \notin Inside /\ pc[b] \notin {"date", "time", "head", "body",
                                                         "end", "file"}
      BY <2>1 DEF LockInv, Inside
    <3>3. lib # "log" /\ pc[b] \in {"date", "time"} => Crossed(b)'
      BY <1>5, <2>1 DEF Converts, Crossed
    <3> QED BY <2>1, <3>1, <3>2, <3>3 DEF StampOK
  <2> QED BY <2>2, <2>3
<1>6. ASSUME NEW a \in Activities, Formats(a) PROVE \A b \in Activities : StampOK(b)'
  <2>1. PICK to, x : FormatsTo(a, to, x)
    BY <1>6 DEF Formats
  <2>2. /\ pc'[a] = to /\ call'[a].stamp = x /\ UNCHANGED <<tm, lib, crossed, quiet>>
        /\ call'[a].at = call[a].at /\ call'[a].id = call[a].id
        /\ \A b \in Activities \ {a} : call'[b] = call[b] /\ pc'[b] = pc[b]
    BY <2>1 DEF FormatsTo, Steady, TypeOK, CallRecords
  <2>3. Crossed(a)' <=> Crossed(a)
    BY <2>2 DEF Crossed
  <2>4. StampOK(a)'
    <3>1. CASE pc[a] = "date" /\ to = "time" /\ x = <<tm, 0>>
      BY <2>2, <2>3, <3>1 DEF StampOK
    <3>2. CASE /\ pc[a] = "time" /\ x = <<call[a].stamp[1], tm>>
               /\ to = IF lib = "log" THEN "head" ELSE "gate"
      <4>1. (call[a].stamp = <<call[a].at, 0>> /\ tm = call[a].at) \/ Crossed(a)
        BY <3>2 DEF StampOK
      <4>2. lib = "log" => ~Crossed(a)
        BY DEF Crossed
      <4> QED BY <2>2, <2>3, <3>2, <4>1, <4>2 DEF StampOK
    <3>3. CASE /\ lib = "log" /\ pc[a] = "file" /\ to = "fhead" /\ x = <<tm, tm>>
               /\ fp # NULL /\ ~quiet
      BY <2>2, <2>3, <3>3 DEF StampOK
    <3> QED BY <2>1, <3>1, <3>2, <3>3 DEF FormatsTo
  <2> QED BY <2>2, <2>4, StampKept
<1>7. ASSUME NEW a \in Activities, Moves(a) PROVE \A b \in Activities : StampOK(b)'
  <2>1. PICK to : MovesTo(a, to)
    BY <1>7 DEF Moves
  <2>2. /\ \A b \in Activities : pc'[b] = IF b = a THEN to ELSE pc[b]
        /\ UNCHANGED <<tm, lib, crossed, quiet, call>>
    BY <2>1 DEF MovesTo, TypeOK
  <2>3. \/ to \in {"crashed", "idle", "unlock", "convert", "init", "open", "opened", "failed",
                  "fbody", "fend", "flush", "fclose"}
        \/ /\ pc[a] \in {"gate", "lock", "check", "default"}
           /\ to \in {"lock", "check", "default", "head", "body"} \/ (quiet /\ to = "file")
           /\ to \in {"head", "body"} => lib # "log"
    BY <2>1 DEF MovesTo, GoesTo, Misses, Locks, First, Defaults, Printing, Opens, Closes,
                TypeOK
  <2>4. Crossed(a)' <=> Crossed(a)
    BY <2>2 DEF Crossed
  <2>5. StampOK(a)'
    BY <2>2, <2>3, <2>4 DEF StampOK
  <2> QED BY <2>2, <2>5, StampKept
<1>8. ASSUME NEW a \in Activities, Prints(a) PROVE \A b \in Activities : StampOK(b)'
  <2>1. PICK to, s, part, stamp : PrintsTo(a, to, s, part, stamp)
    BY <1>8 DEF Prints
  <2>2. /\ \A b \in Activities : pc'[b] = IF b = a THEN to ELSE pc[b]
        /\ UNCHANGED <<tm, lib, crossed, quiet, call>>
    BY <2>1 DEF PrintsTo, Steady, TypeOK
  <2>3. \/ to \in {"unlock", "fbody", "fend", "flush"}
        \/ pc[a] \in {"head", "body", "end"} /\ to \in {"body", "end", "file"}
    BY <2>1, SMTT(30) DEF PrintsTo
  <2>4. Crossed(a)' <=> Crossed(a)
    BY <2>2 DEF Crossed
  <2>5. StampOK(a)'
    BY <2>2, <2>3, <2>4 DEF StampOK
  <2> QED BY <2>2, <2>5, StampKept
<1> QED BY <1>1, <1>2, <1>3, <1>4, <1>5, <1>6, <1>7, <1>8 DEF Steps, Acts

LEMMA OwnTimeStep ==
  ASSUME TypeOK, IdsInv, TimeInv, Steps
  PROVE  OwnTime'
<1> USE Constants
<1>1. CASE UNCHANGED <<lib, out>> /\ crossed \subseteq crossed'
  BY <1>1 DEF TimeInv, OwnTime
<1>2. ASSUME NEW a \in Activities, Prints(a) PROVE OwnTime'
  <2>1. PICK to, s, part, stamp : PrintsTo(a, to, s, part, stamp)
    BY <1>2 DEF Prints
  <2>2. UNCHANGED <<lib, crossed>>
    BY <2>1 DEF PrintsTo, Steady
  <2>3. \/ stamp \in {NoTime, Garbage, <<call[a].at, call[a].at>>}
        \/ lib # "log" /\ call[a].id \in crossed
    BY <2>1 DEF PrintsTo, TimeInv, Crossed
  <2>4. /\ Piece(a, part, stamp).stamp = stamp /\ Piece(a, part, stamp).at = call[a].at
        /\ Piece(a, part, stamp).id = call[a].id
    BY DEF Piece
  <2>5. ASSUME NEW r \in DOMAIN out', NEW k \in DOMAIN out'[r]
        PROVE  \/ out'[r][k].stamp \in {NoTime, Garbage, <<out'[r][k].at, out'[r][k].at>>}
               \/ lib # "log" /\ out'[r][k].id \in crossed
    <3>1. CASE k \in DOMAIN out[r] /\ out'[r][k] = out[r][k] /\ r \in DOMAIN out
      BY <3>1 DEF TimeInv, OwnTime
    <3>2. CASE out'[r][k] = Piece(a, part, stamp)
      BY <2>3, <2>4, <3>2
    <3> QED BY <2>1, <3>1, <3>2, Printed
  <2> QED BY <2>2, <2>5 DEF OwnTime
<1>3. UNCHANGED vars \/ Sets => UNCHANGED <<lib, out>> /\ crossed \subseteq crossed'
  BY DEF vars, Sets, settings, stamping, calls
<1>4. ASSUME NEW a \in Activities, Acts(a), ~Prints(a)
      PROVE  UNCHANGED <<lib, out>> /\ crossed \subseteq crossed'
  <2>1. Begins(a) => UNCHANGED <<lib, out, crossed>>
    BY DEF Begins, BeginsAt, Steady
  <2>2. Returns(a) => UNCHANGED <<lib, out, crossed>>
    BY DEF Returns, Steady
  <2>3. Converts(a) => UNCHANGED <<lib, out>> /\ crossed \subseteq crossed'
    BY DEF Converts, settings
  <2>4. Formats(a) => UNCHANGED <<lib, out, crossed>>
    BY DEF Formats, FormatsTo, Steady
  <2>5. Moves(a) => UNCHANGED <<lib, out, crossed>>
    BY DEF Moves, MovesTo
  <2> QED BY <1>4, <2>1, <2>2, <2>3, <2>4, <2>5 DEF Acts
<1> QED BY <1>1, <1>2, <1>3, <1>4 DEF Steps

LEMMA TimeStep ==
  ASSUME TypeOK, IdsInv, LockInv, TimeInv, Steps
  PROVE  TimeInv'
<1>1. \A a \in Activities : StampOK(a)
  BY DEF TimeInv, StampOK
<1>2. \A a \in Activities : StampOK(a)'
  BY <1>1, StampsStep
<1> QED BY <1>2, OwnTimeStep DEF TimeInv, StampOK

-----------------------------------------------------------------------------
(* The stream.                                                             *)

\* Nothing happens after the end of the process.
LEMMA Alive ==
  ASSUME TypeOK, StreamInv, [Next]_vars
  PROVE  UNCHANGED vars \/ ~Crashed
<1>1. ASSUME LogNext PROVE ~Crashed
  <2>1. Quiescent => ~Crashed
    BY DEF Quiescent, Crashed
  <2>2. ASSUME NEW t \in Threads, LogStep(t) PROVE ~Crashed
    BY <2>2 DEF LogStep, Gate, Enter, Convert, FormatDate, FormatTime, LogScreen, LogFile,
                LogWrite, FilePiece, Leave, FileClose
  <2>3. ASSUME NEW t \in Threads, file_log_init(t) \/ file_log_deinit(t) \/ LogCall(t)
        PROVE  ~Crashed
    BY <2>3 DEF file_log_init, file_log_deinit, LogCall, Begin
  <2> QED BY <1>1, <2>1, <2>2, <2>3 DEF LogNext, log_init, log_deinit
<1>2. ASSUME PrettyNext PROVE ~Crashed
  <2>1. lib = "pretty_log"
    BY <1>2 DEF PrettyNext, pretty_log_init, PrettyCall, PrettyStep
  <2> QED BY <2>1 DEF StreamInv, CrashesExplained, Crashed
<1>3. ASSUME SlogNext PROVE ~Crashed
  <2>1. ASSUME NEW t \in Threads,
               InitCall(t) \/ InitLock(t) \/ InitOpen(t) \/ InitFailed(t) \/ InitUnlock(t)
        PROVE  ~Crashed
    BY <2>1 DEF InitCall, InitLock, InitOpen, InitFailed, InitUnlock
  <2>2. ASSUME NEW a \in Activities, SlogCall(a) PROVE ~Crashed
    BY <2>2 DEF SlogCall, Begin
  <2>3. ASSUME NEW a \in Activities, SlogStep(a) PROVE ~Crashed
    BY <2>3 DEF SlogStep, Convert, FormatDate, FormatTime, Gate, Enter, Check, Default,
                SlogPrint, Leave
  <2> QED BY <1>3, <2>1, <2>2, <2>3 DEF SlogNext
<1> QED BY <1>1, <1>2, <1>3 DEF Next

\* The parts of StreamInv.
SwappedUse == \A a \in swapped : pc[a] \in Using \cup {"crashed"}

FileThere ==
  lib = "log" =>
    /\ fp # "screen"
    /\ \A t \in Threads :
         /\ pc[t] \in Using /\ fp = NULL => t \in swapped
         /\ pc[t] \in {"fhead", "fbody", "fend", "flush"} => ~quiet

OpenFailed == \E t \in Threads : pc[t] = "failed"

StreamThere ==
  lib = "slog" =>
    /\ fp # "closed"
    /\ \A a \in Activities : pc[a] \in {"head", "body", "end"} =>
         fp # NULL \/ (a = Handler /\ OpenFailed)
    /\ \A t \in Threads : t \in swapped => fp = "screen"

\* Why the process ends with a.
Cause(a) ==
  \/ lib = "log" /\ quiet /\ fp # NULL /\ call[a] # NoCall
  \/ lib = "log" /\ fp = "closed"
  \/ lib = "log" /\ fp = NULL /\ a \in swapped
  \/ lib = "slog" /\ fp = NULL /\ a = Handler /\ OpenFailed

LEMMA StreamParts ==
  StreamInv <=> /\ SwappedUse /\ FileThere /\ StreamThere
                /\ \A a \in Activities : pc[a] = "crashed" => Cause(a)
BY DEF StreamInv, CrashesExplained, SwappedUse, FileThere, StreamThere, Cause, OpenFailed

LEMMA StreamPartsNext ==
  StreamInv' <=> /\ SwappedUse' /\ FileThere' /\ StreamThere'
                 /\ \A a \in Activities : pc'[a] = "crashed" => Cause(a)'
BY DEF StreamInv, CrashesExplained, SwappedUse, FileThere, StreamThere, Cause, OpenFailed

\* A step that leaves the stream alone.
LEMMA StreamKept ==
  ASSUME TypeOK, StreamInv, ~Crashed, UNCHANGED <<lib, fp, quiet>>,
         NEW a \in Activities, NEW to, pc[a] # "failed",
         \A b \in Activities : pc'[b] = IF b = a THEN to ELSE pc[b],
         swapped' = swapped \/ swapped' = swapped \ {a},
         a \in swapped' => to \in Using \cup {"crashed"},
         lib = "log" /\ a \in Threads /\ to \in Using /\ fp = NULL => a \in swapped',
         lib = "log" /\ to \in {"fhead", "fbody", "fend", "flush"} => ~quiet,
         lib = "slog" /\ to \in {"head", "body", "end"} =>
           fp # NULL \/ (a = Handler /\ OpenFailed),
         to = "crashed" =>
           call' = call /\ Cause(a) /\ (a \in swapped => a \in swapped' \/ lib # "log")
  PROVE  StreamInv'
<1> USE Constants
<1>1. SwappedUse /\ FileThere /\ StreamThere
  BY StreamParts
<1>2. \A b \in Activities : pc[b] # "crashed"
  BY DEF Crashed
<1>3. Using' = Using
  BY DEF Using
<1>4. OpenFailed => OpenFailed'
  BY DEF OpenFailed
<1>5. SwappedUse'
  BY <1>1, <1>3 DEF SwappedUse, TypeOK
<1>6. FileThere'
  BY <1>1, <1>3 DEF FileThere
<1>7. StreamThere'
  BY <1>1, <1>4 DEF StreamThere
<1>8. ASSUME NEW b \in Activities, pc'[b] = "crashed" PROVE Cause(b)'
  <2>1. b = a /\ to = "crashed"
    BY <1>2, <1>8
  <2> QED BY <1>4, <2>1 DEF Cause
<1> QED BY <1>5, <1>6, <1>7, <1>8, StreamPartsNext

LEMMA StreamStep ==
  ASSUME TypeOK, IdsInv, LockInv, StreamInv, Steps, UNCHANGED vars \/ ~Crashed
  PROVE  StreamInv'
<1> USE Constants
<1>1. CASE UNCHANGED vars
  BY <1>1 DEF vars, settings, stamping, calls, StreamInv, CrashesExplained, Using
<1> SUFFICES ASSUME ~Crashed PROVE StreamInv'
  BY <1>1
<1>0. /\ SwappedUse /\ FileThere /\ StreamThere /\ lib \in {"log", "pretty_log", "slog"}
      /\ \A a \in Activities : pc[a] # "crashed" /\ (pc[a] \notin Using => a \notin swapped)
  BY StreamParts DEF SwappedUse, Crashed, TypeOK
<1>2. CASE Sets
  <2>1. UNCHANGED <<lib, pc>> /\ Using' = Using
    BY <1>2 DEF Sets, Using
  <2>2. quiet' # quiet => \A a \in Activities : pc[a] = "idle"
    BY <1>2 DEF Sets, Quiescent
  <2>3. \/ UNCHANGED <<fp, swapped>>
        \/ lib = "log" /\ fp' = "file"
           /\ swapped' \subseteq swapped \cup {b \in Activities : pc[b] \in Using}
        \/ lib = "pretty_log" /\ swapped' = swapped
    BY <1>2 DEF Sets, Swap
  <2>4. SwappedUse'
    BY <1>0, <2>1, <2>3 DEF SwappedUse
  <2>5. FileThere'
    BY <1>0, <2>1, <2>2, <2>3 DEF FileThere
  <2>6. StreamThere'
    BY <1>0, <2>1, <2>3 DEF StreamThere, OpenFailed
  <2> QED BY <1>0, <2>1, <2>4, <2>5, <2>6, StreamPartsNext
<1>3. ASSUME NEW a \in Activities, Begins(a) PROVE StreamInv'
  <2>1. PICK step, l, k : BeginsAt(a, step, l, k)
    BY <1>3 DEF Begins
  <2>2. /\ \A b \in Activities : pc'[b] = IF b = a THEN step ELSE pc[b]
        /\ step \in {"convert", "gate"} /\ UNCHANGED <<lib, quiet>> /\ pc[a] = "idle"
    BY <2>1 DEF BeginsAt, Steady, TypeOK
  <2>3. pc[a] \notin Using /\ step \notin Using /\ Using' = Using
    BY <2>2 DEF Using
  <2>4. CASE UNCHANGED <<fp, inits, swapped>>
    BY <1>0, <2>2, <2>3, <2>4, StreamKept
  <2>5. CASE lib = "log" /\ fp' = NULL /\ Swap(a)
    <3>1. SwappedUse'
      BY <1>0, <2>2, <2>3, <2>5 DEF SwappedUse, Swap, TypeOK
    <3>2. FileThere'
      BY <1>0, <2>2, <2>3, <2>5 DEF FileThere, Swap
    <3>3. StreamThere' /\ \A b \in Activities : pc'[b] # "crashed"
      BY <1>0, <2>2, <2>5 DEF StreamThere
    <3> QED BY <3>1, <3>2, <3>3, StreamPartsNext
  <2> QED BY <2>1, <2>4, <2>5 DEF BeginsAt
<1>4. ASSUME NEW a \in Activities, Returns(a) PROVE StreamInv'
  <2>1. /\ \A b \in Activities : pc'[b] = IF b = a THEN "idle" ELSE pc[b]
        /\ UNCHANGED <<lib, quiet, fp, swapped>> /\ pc[a] \in {"gate", "unlock"}
    BY <1>4 DEF Returns, Steady, TypeOK
  <2>2. pc[a] \notin Using /\ "idle" \notin Using
    BY <2>1 DEF Using
  <2> QED BY <1>0, <2>1, <2>2, StreamKept
<1>5. ASSUME NEW a \in Activities, Converts(a) PROVE StreamInv'
  <2>1. /\ \A b \in Activities : pc'[b] = IF b = a THEN "date" ELSE pc[b]
        /\ UNCHANGED <<lib, quiet, fp, swapped>> /\ pc[a] = "convert"
    BY <1>5 DEF Converts, settings, TypeOK
  <2>2. pc[a] \notin Using /\ "date" \notin Using
    BY <2>1 DEF Using
  <2> QED BY <1>0, <2>1, <2>2, StreamKept
<1>6. ASSUME NEW a \in Activities, Formats(a) PROVE StreamInv'
  <2>1. PICK to, x : FormatsTo(a, to, x)
    BY <1>6 DEF Formats
  <2>2. /\ \A b \in Activities : pc'[b] = IF b = a THEN to ELSE pc[b]
        /\ UNCHANGED <<lib, quiet, fp, swapped>> /\ pc[a] \in {"date", "time", "file"}
    BY <2>1 DEF FormatsTo, Steady, TypeOK
  <2>3. \/ to \in {"time", "gate"}
        \/ lib = "log" /\ to = "head"
        \/ lib = "log" /\ to = "fhead" /\ fp # NULL /\ ~quiet
    BY <2>1 DEF FormatsTo
  <2>4. pc[a] \notin Using
    BY <2>2 DEF Using
  <2>5. to \in Using => fp # NULL
    BY <2>3 DEF Using
  <2> QED BY <1>0, <2>2, <2>3, <2>4, <2>5, StreamKept
<1>7. ASSUME NEW a \in Activities, Moves(a) PROVE StreamInv'
  <2>1. PICK to : MovesTo(a, to)
    BY <1>7 DEF Moves
  <2>2. /\ \A b \in Activities : pc'[b] = IF b = a THEN to ELSE pc[b]
        /\ UNCHANGED <<lib, quiet, call>> /\ Using' = Using
    BY <2>1 DEF MovesTo, TypeOK, Using
  <2>3. CASE GoesTo(a, to)
    <3>1. UNCHANGED <<fp, swapped>> /\ pc[a] # "failed"
      BY <2>3 DEF GoesTo
    <3>2. \/ /\ to \in {"lock", "unlock", "default"}
             /\ pc[a] \in {"gate", "file", "check"}
          \/ to \in {"head", "body"} /\ lib = "slog" /\ fp # NULL /\ pc[a] = "check"
          \/ to = "crashed" /\ lib = "log" /\ pc[a] = "file" /\ quiet /\ fp # NULL
          \/ to = "crashed" /\ lib = "log" /\ pc[a] \in {"fhead", "fbody", "fend"}
             /\ fp # "file"
          \/ to = "crashed" /\ lib = "log" /\ pc[a] = "flush" /\ fp = "closed"
      BY <2>3 DEF GoesTo, Printing
    <3>3. to = "crashed" => Cause(a)
      <4>1. lib = "log" /\ to = "crashed" => a \in Threads
        BY <3>2 DEF LockInv
      <4>2. lib = "log" /\ pc[a] = "file" => call[a] # NoCall
        BY DEF IdsInv, Calling, NoCall
      <4>3. lib = "log" /\ pc[a] \in {"fhead", "fbody", "fend"} => pc[a] \in Using
        BY DEF Using
      <4>4. lib = "log" /\ fp # "file" => fp \in {NULL, "closed"}
        BY <1>0 DEF FileThere, TypeOK
      <4> QED BY <1>0, <3>2, <4>1, <4>2, <4>3, <4>4 DEF Cause, FileThere
    <3>4. to # "crashed" => pc[a] \notin Using
      BY <3>2 DEF Using
    <3>5. to \in Using => fp # NULL
      BY <3>2 DEF Using
    <3> QED BY <1>0, <2>2, <3>1, <3>2, <3>3, <3>4, <3>5, StreamKept
  <2>4. CASE Misses(a, to)
    <3>1. fp' = fp /\ swapped' = swapped \ {a} /\ pc[a] # "failed"
      BY <2>4 DEF Misses, Used
    <3>2. \/ lib = "log" /\ to \in {"fbody", "fend", "flush"} /\ fp = "closed"
             /\ pc[a] \in {"fhead", "fbody", "fend"}
          \/ lib = "log" /\ to = "unlock"
          \/ lib = "slog" /\ pc[a] \in {"head", "body", "end"} /\ fp = NULL /\ to = "crashed"
      BY <2>4 DEF Misses
    <3>3. to = "crashed" => Cause(a)
      BY <1>0, <3>2 DEF StreamThere, Cause
    <3>4. lib = "log" /\ to \in {"fbody", "fend", "flush"} => ~quiet
      <4>1. lib = "log" /\ pc[a] \in {"fhead", "fbody", "fend"} => a \in Threads
        BY DEF LockInv
      <4> QED BY <1>0, <3>2, <4>1 DEF FileThere
    <3>5. to \in Using => fp # NULL
      BY <3>2 DEF Using
    <3> QED BY <1>0, <2>2, <3>1, <3>2, <3>3, <3>4, <3>5, StreamKept
  <2>5. CASE Locks(a, to)
    <3>1. UNCHANGED <<fp, swapped>> /\ pc[a] = "lock"
      BY <2>5 DEF Locks
    <3>2. to \in {"file", "convert", "check"} \/ (lib = "pretty_log" /\ to \in {"body", "head"})
      BY <1>0, <2>5 DEF Locks, First
    <3>3. pc[a] \notin Using /\ to \notin Using
      BY <3>1, <3>2 DEF Using
    <3> QED BY <1>0, <2>2, <3>1, <3>2, <3>3, StreamKept
  <2>6. CASE Defaults(a, to)
    <3>1. fp' = "screen" /\ lib = "slog" /\ to \in {"body", "head"} /\ pc[a] = "default"
      BY <2>6 DEF Defaults, Printing
    <3>2. \/ swapped' = swapped
          \/ swapped' = (swapped \cup {b \in Activities : pc[b] \in Using}) \ {a}
      BY <2>6 DEF Defaults, Swap
    <3>3. pc[a] \notin Using
      BY <3>1 DEF Using
    <3>4. SwappedUse'
      BY <1>0, <2>2, <3>2, <3>3 DEF SwappedUse, TypeOK
    <3>5. FileThere' /\ StreamThere' /\ \A b \in Activities : pc'[b] # "crashed"
      BY <1>0, <2>2, <3>1 DEF FileThere, StreamThere
    <3> QED BY <3>4, <3>5, StreamPartsNext
  <2>7. CASE Opens(a, to)
    <3>1. /\ lib = "slog" /\ a \in Threads /\ swapped' = swapped
          /\ pc[a] \in {"idle", "init", "open", "failed", "opened"}
          /\ to \in {"init", "open", "opened", "failed", "idle"}
      BY <2>7 DEF Opens
    <3>2. pc[a] \notin Using /\ to \notin Using
      BY <3>1 DEF Using
    <3>3. CASE fp' = fp /\ pc[a] # "failed"
      BY <1>0, <2>2, <3>1, <3>2, <3>3, StreamKept
    <3>4. CASE /\ fp' # "closed" /\ pc[a] \in {"open", "failed"}
               /\ pc[a] = "failed" => fp' = "screen"
               /\ fp' = NULL => to = "failed"
      <4>1. \A t \in Threads \ {a} : pc[t] \notin {"head", "body", "end"}
        BY <3>1, <3>4 DEF LockInv, Inside
      <4>2. \A t \in Threads : t \notin swapped
        BY <1>0, <3>1, <3>2, <4>1 DEF Using
      <4>3. SwappedUse'
        BY <1>0, <2>2, <3>1, <3>2 DEF SwappedUse, TypeOK
      <4>4. FileThere' /\ \A b \in Activities : pc'[b] # "crashed"
        BY <1>0, <2>2, <3>1 DEF FileThere
      <4>5. OpenFailed' \/ fp' # NULL
        BY <2>2, <3>1, <3>4 DEF OpenFailed
      <4>6. StreamThere'
        BY <2>2, <3>1, <3>4, <4>1, <4>2, <4>5 DEF StreamThere
      <4> QED BY <4>3, <4>4, <4>6, StreamPartsNext
    <3> QED BY <2>7, <3>3, <3>4 DEF Opens
  <2>8. CASE Closes(a, to)
    <3>1. lib = "log" /\ a \in Threads /\ to \in {"fclose", "idle", "crashed"}
          /\ pc[a] \in {"idle", "fclose"}
      BY <2>8 DEF Closes
    <3>2. "idle" \notin Using /\ "crashed" \notin Using /\ "fclose" \in Using
      BY <3>1 DEF Using
    <3>3. CASE fp = "file" /\ fp' = "closed" /\ to = "idle" /\ Swap(a)
      <4>1. SwappedUse'
        BY <1>0, <2>2, <3>3 DEF SwappedUse, Swap, TypeOK
      <4>2. FileThere' /\ StreamThere' /\ \A b \in Activities : pc'[b] # "crashed"
        BY <1>0, <2>2, <3>1, <3>3 DEF FileThere, StreamThere
      <4> QED BY <4>1, <4>2, StreamPartsNext
    <3>4. CASE fp = "closed" /\ fp' = fp /\ to = "idle" /\ Used(a)
      BY <1>0, <2>2, <3>1, <3>2, <3>4, StreamKept DEF Used
    <3>5. CASE pc[a] = "fclose" /\ fp # "file" /\ fp' = fp /\ to = "crashed" /\ swapped' = swapped
      <4>1. fp \in {NULL, "closed"}
        BY <1>0, <3>1, <3>5 DEF FileThere, TypeOK
      <4>2. Cause(a)
        BY <1>0, <3>1, <3>2, <3>5, <4>1 DEF Cause, FileThere
      <4> QED BY <1>0, <2>2, <3>1, <3>2, <3>5, <4>2, StreamKept
    <3>6. CASE pc[a] = "idle" /\ to = "fclose" /\ fp # NULL /\ UNCHANGED <<fp, swapped>>
      BY <1>0, <2>2, <3>1, <3>2, <3>6, StreamKept
    <3> QED BY <2>8, <3>3, <3>4, <3>5, <3>6 DEF Closes
  <2> QED BY <2>1, <2>3, <2>4, <2>5, <2>6, <2>7, <2>8 DEF MovesTo
<1>8. ASSUME NEW a \in Activities, Prints(a) PROVE StreamInv'
  <2>1. PICK to, s, part, stamp : PrintsTo(a, to, s, part, stamp)
    BY <1>8 DEF Prints
  <2>2. /\ \A b \in Activities : pc'[b] = IF b = a THEN to ELSE pc[b]
        /\ UNCHANGED <<lib, quiet, fp>>
        /\ swapped' = IF lib = "slog" \/ pc[a] \in {"fhead", "fbody", "fend"}
                      THEN swapped \ {a} ELSE swapped
    BY <2>1 DEF PrintsTo, Steady, TypeOK
  <2>3. \/ /\ to \in {"body", "end", "file", "unlock"}
           /\ pc[a] \in {"head", "body", "end", "file"}
           /\ lib = "slog" => fp # NULL
        \/ /\ to \in {"fbody", "fend", "flush"} /\ pc[a] \in {"fhead", "fbody", "fend"}
           /\ lib = "log" /\ fp = "file"
    BY <2>1 DEF PrintsTo
  <2>4. lib = "log" /\ to \in {"fbody", "fend", "flush"} => ~quiet
    <3>1. lib = "log" /\ pc[a] \in {"fhead", "fbody", "fend"} => a \in Threads
      BY DEF LockInv
    <3> QED BY <1>0, <2>3, <3>1 DEF FileThere
  <2>5. a \notin swapped'
    BY <1>0, <2>2, <2>3 DEF Using
  <2>6. lib = "log" /\ to \in Using => fp # NULL
    BY <2>3 DEF Using
  <2>7. /\ pc[a] # "failed" /\ to # "crashed" /\ to # "fhead"
        /\ lib = "slog" /\ to \in {"head", "body", "end"} => fp # NULL
        /\ swapped' = swapped \/ swapped' = swapped \ {a}
    BY <2>2, <2>3
  <2> HIDE <2>3
  <2> QED BY <2>2, <2>4, <2>5, <2>6, <2>7, StreamKept
<1> QED BY <1>1, <1>2, <1>3, <1>4, <1>5, <1>6, <1>7, <1>8 DEF Steps, Acts

-----------------------------------------------------------------------------
(* The lines.                                                              *)

\* What stood before a place of a stream stands there still.
LEMMA FollowsKept ==
  ASSUME TypeOK, IdsInv, NEW a \in Activities, NEW to, NEW s, NEW part, NEW stamp,
         PrintsTo(a, to, s, part, stamp),
         NEW r \in {"screen", "file"}, NEW k \in 1 .. Len(out[r]) + 1, NEW n,
         Follows(out[r], k, n)
  PROVE  Follows(out'[r], k, n)
<1> DEFINE q == out[r]
           u == out'[r]
<1>1. /\ Len(q) \in Nat /\ DOMAIN q = 1 .. Len(q)
      /\ \/ u = q
         \/ DOMAIN u = 1 .. Len(q) + 1 /\ \A i \in DOMAIN q : u[i] = q[i]
  BY Printed, LenProperties
<1>2. k \in 1 .. Len(q) + 1
  OBVIOUS
<1> SUFFICES ASSUME Follows(q, k, n) PROVE Follows(u, k, n)
  OBVIOUS
<1> HIDE DEF q, u
<1>3. PICK j \in DOMAIN q :
        /\ j < k /\ Locked(q[j]) /\ q[j].id = n
        /\ \A i \in DOMAIN q : j < i /\ i < k => ~Locked(q[i])
  BY DEF Follows
<1>4. j \in DOMAIN u /\ u[j] = q[j]
  BY <1>1
<1>5. ASSUME NEW i \in DOMAIN u, j < i, i < k PROVE ~Locked(u[i])
  BY <1>1, <1>2, <1>3, <1>5
<1> QED BY <1>3, <1>4, <1>5 DEF Follows

\* After a piece of the handler the last piece of the threads is what it was.
LEMMA FollowsHandler ==
  ASSUME TypeOK, IdsInv, NEW to, NEW s \in {"screen", "file"}, NEW part, NEW stamp,
         PrintsTo(Handler, to, s, part, stamp), NEW n,
         Follows(out[s], Len(out[s]) + 1, n)
  PROVE  Follows(out'[s], Len(out'[s]) + 1, n)
<1> DEFINE q == out[s]
           u == out'[s]
           p == Piece(Handler, part, stamp)
<1>1. /\ Len(q) \in Nat /\ DOMAIN q = 1 .. Len(q) /\ Len(u) = Len(q) + 1
      /\ DOMAIN u = 1 .. Len(q) + 1 /\ \A i \in DOMAIN q : u[i] = q[i]
      /\ u[Len(q) + 1] = p
  BY Printed, LenProperties, Constants
<1>2. ~Locked(p)
  BY DEF Locked, Piece
<1> SUFFICES ASSUME Follows(q, Len(q) + 1, n) PROVE Follows(u, Len(u) + 1, n)
  OBVIOUS
<1> HIDE DEF q, u, p
<1>3. PICK j \in DOMAIN q :
        /\ j < Len(q) + 1 /\ Locked(q[j]) /\ q[j].id = n
        /\ \A i \in DOMAIN q : j < i /\ i < Len(q) + 1 => ~Locked(q[i])
  BY DEF Follows
<1>4. j \in DOMAIN u /\ j < Len(u) + 1 /\ u[j] = q[j]
  BY <1>1
<1>5. ASSUME NEW i \in DOMAIN u, j < i PROVE ~Locked(u[i])
  BY <1>1, <1>2, <1>3, <1>5
<1> QED BY <1>3, <1>4, <1>5 DEF Follows

\* After a piece of a thread it is that piece.
LEMMA FollowsOwn ==
  ASSUME TypeOK, IdsInv, NEW t \in Threads, NEW to, NEW s \in {"screen", "file"},
         NEW part, NEW stamp, PrintsTo(t, to, s, part, stamp)
  PROVE  Follows(out'[s], Len(out'[s]) + 1, call[t].id)
<1> DEFINE u == out'[s]
           p == Piece(t, part, stamp)
<1>1. /\ Len(u) \in Nat /\ Len(u) \in DOMAIN u /\ DOMAIN u = 1 .. Len(u) /\ u[Len(u)] = p
  BY Printed, LenProperties, Constants
<1>2. Locked(p) /\ p.id = call[t].id
  BY DEF Locked, Piece
<1> HIDE DEF u, p
<1>3. Follows(u, Len(u) + 1, call[t].id)
  BY <1>1, <1>2 DEF Follows
<1> QED BY <1>3 DEF u

\* A thread in the middle of its line has a stream.
LEMMA LineStream ==
  ASSUME TypeOK, StreamInv, NEW t \in Threads, Continues(t)
  PROVE  Stream(t) \in {"screen", "file"}
BY Constants DEF TypeOK, StreamInv, Stream, Continues

LEMMA WholeStep ==
  ASSUME TypeOK, IdsInv, LockInv, StreamInv, WholeInv, Steps
  PROVE  WholeInv'
<1> USE Constants
<1>1. ASSUME UNCHANGED <<lib, out>>,
             \A t \in Threads : Continues(t)' /\ t \notin swapped' =>
               /\ Continues(t) /\ t \notin swapped
               /\ call'[t].id = call[t].id /\ Stream(t)' = Stream(t)
      PROVE  WholeInv'
  BY <1>1 DEF WholeInv, LinesWhole, MayTear
<1>2. CASE UNCHANGED vars
  BY <1>2 DEF vars, WholeInv, LinesWhole, MayTear, Continues, Stream, settings, stamping, calls
<1>3. CASE Sets
  <2>1. UNCHANGED <<lib, pc, call, out>>
    BY <1>3 DEF Sets
  <2>2. CASE UNCHANGED <<fp, swapped>>
    BY <1>1, <2>1, <2>2 DEF Continues, Stream
  <2>3. CASE lib = "log" /\ \E t \in Threads : pc[t] = "idle" /\ Swap(t)
    <3>1. ASSUME NEW t \in Threads, Continues(t)', t \notin swapped'
          PROVE  Continues(t) /\ t \notin swapped /\ Stream(t)' = Stream(t)
      <4>1. pc[t] \in {"body", "end", "fbody", "fend"}
        BY <2>1, <3>1 DEF Continues
      <4>2. t \notin swapped /\ pc[t] \notin Using
        BY <2>3, <3>1, <4>1 DEF Swap
      <4>3. pc[t] \in {"body", "end"}
        BY <2>3, <4>1, <4>2 DEF Using
      <4> QED BY <2>1, <2>3, <4>2, <4>3 DEF Continues, Stream
    <3> QED BY <1>1, <2>1, <3>1
  <2>4. CASE /\ lib = "pretty_log" /\ swapped' = swapped
             /\ \A a \in Activities : pc[a] \notin Calling
    BY <1>1, <2>1, <2>4 DEF Continues, Calling
  <2> QED BY <1>3, <2>2, <2>3, <2>4 DEF Sets
<1>4. ASSUME NEW a \in Activities, UNCHANGED <<lib, out>>,
             \/ UNCHANGED <<fp, swapped>>
             \/ lib = "log" /\ fp' # "file" /\ Swap(a),
             pc'[a] \notin {"body", "end", "fbody", "fend"},
             \A b \in Activities \ {a} : call'[b] = call[b] /\ pc'[b] = pc[b]
      PROVE  WholeInv'
  <2>1. ASSUME NEW t \in Threads, Continues(t)', t \notin swapped'
        PROVE  /\ Continues(t) /\ t \notin swapped
               /\ call'[t].id = call[t].id /\ Stream(t)' = Stream(t)
    <3>1. t # a
      BY <1>4, <2>1 DEF Continues
    <3>2. CASE UNCHANGED <<fp, swapped>>
      BY <1>4, <2>1, <3>1, <3>2 DEF Continues, Stream
    <3>3. CASE lib = "log" /\ fp' # "file" /\ Swap(a)
      BY <1>4, <2>1, <3>1, <3>3 DEF Continues, Stream, Swap
    <3> QED BY <1>4, <3>2, <3>3
  <2> QED BY <1>1, <1>4, <2>1
<1>5. ASSUME NEW a \in Activities, Begins(a) PROVE WholeInv'
  <2>1. PICK step, l, k : BeginsAt(a, step, l, k)
    BY <1>5 DEF Begins
  <2>2. /\ UNCHANGED <<lib, out>>
        /\ UNCHANGED <<fp, swapped>> \/ (lib = "log" /\ fp' # "file" /\ Swap(a))
        /\ pc'[a] \in {"convert", "gate"}
        /\ \A b \in Activities \ {a} : call'[b] = call[b] /\ pc'[b] = pc[b]
    BY <2>1 DEF BeginsAt, Steady, TypeOK
  <2> QED BY <1>4, <2>2
<1>6. ASSUME NEW a \in Activities, Returns(a) PROVE WholeInv'
  BY <1>4, <1>6 DEF Returns, Steady, TypeOK
<1>7. ASSUME NEW a \in Activities, Converts(a) PROVE WholeInv'
  BY <1>4, <1>7 DEF Converts, settings, TypeOK
<1>8. ASSUME NEW a \in Activities, Formats(a) PROVE WholeInv'
  <2>1. PICK to, x : FormatsTo(a, to, x)
    BY <1>8 DEF Formats
  <2>2. /\ UNCHANGED <<lib, out, swapped, fp>> /\ pc'[a] \in {"time", "gate", "head", "fhead"}
        /\ \A b \in Activities \ {a} : call'[b] = call[b] /\ pc'[b] = pc[b]
    BY <2>1 DEF FormatsTo, Steady, TypeOK
  <2> QED BY <1>4, <2>2
<1>9. ASSUME NEW a \in Activities, Moves(a) PROVE WholeInv'
  <2>1. PICK to : MovesTo(a, to)
    BY <1>9 DEF Moves
  <2>2. /\ \A b \in Activities : pc'[b] = IF b = a THEN to ELSE pc[b]
        /\ UNCHANGED <<lib, call, out>>
    BY <2>1 DEF MovesTo, TypeOK
  <2>3. /\ to # "end" /\ (to = "body" => lib # "log" /\ call[a].kind = "raw")
        /\ to \in {"fbody", "fend"} => fp' # "file"
    BY <2>1 DEF MovesTo, GoesTo, Misses, Locks, First, Defaults, Printing, Opens, Closes,
                TypeOK
  <2>4. ASSUME NEW t \in Threads, Continues(t)', t \notin swapped'
        PROVE  /\ Continues(t) /\ t \notin swapped /\ Stream(t)' = Stream(t)
    <3>1. t # a
      BY <2>2, <2>3, <2>4 DEF Continues
    <3>2. t \notin swapped
      BY <2>1, <2>4, <3>1 DEF MovesTo, GoesTo, Misses, Locks, Defaults, Opens, Closes, Swap, Used
    <3>3. CASE fp' = fp
      BY <2>2, <2>4, <3>1, <3>2, <3>3 DEF Continues, Stream
    <3>4. CASE Defaults(a, to) /\ fp' # fp
      <4>1. pc[t] \in {"body", "end"} /\ Continues(t)
        BY <2>2, <2>4, <3>1, <3>4 DEF Continues, Defaults
      <4>2. fp # "file"
        BY <2>4, <3>1, <3>4, <4>1 DEF Defaults, Swap, Using
      <4>3. fp \notin {"closed", NULL}
        BY <3>4, <4>1 DEF Defaults, StreamInv
      <4> QED BY <3>4, <4>2, <4>3 DEF Defaults, TypeOK
    <3>5. CASE Opens(a, to) /\ fp' # fp
      <4>1. pc[a] \in Inside /\ a \in Threads
        BY <3>5 DEF Opens, Inside
      <4>2. pc[t] \in Inside
        BY <2>2, <2>4, <3>1 DEF Continues, Inside
      <4> QED BY <3>1, <4>1, <4>2 DEF LockInv
    <3>6. CASE Closes(a, to) /\ fp' # fp
      BY <2>2, <2>4, <3>1, <3>2, <3>6 DEF Closes, Continues, Stream
    <3> QED BY <2>1, <3>3, <3>4, <3>5, <3>6 DEF MovesTo, GoesTo, Misses, Locks
  <2> QED BY <1>1, <2>2, <2>4
<1>10. ASSUME NEW a \in Activities, Prints(a) PROVE WholeInv'
  <2>1. PICK to, s, part, stamp : PrintsTo(a, to, s, part, stamp)
    BY <1>10 DEF Prints
  <2>2. /\ \A b \in Activities : pc'[b] = IF b = a THEN to ELSE pc[b]
        /\ UNCHANGED <<lib, fp, call>> /\ swapped' \in {swapped, swapped \ {a}}
    BY <2>1 DEF PrintsTo, Steady, TypeOK
  <2>3. a \in swapped => pc[a] \in Using \cup {"crashed"}
    BY DEF StreamInv
  <2>4. ASSUME NEW t \in Threads, Continues(t)', t \notin swapped'
        PROVE  Follows(out'[Stream(t)'], Len(out'[Stream(t)']) + 1, call[t].id)
    <3>1. CASE t = a
      <4>1. \/ to \in {"body", "end"} /\ pc[a] \in {"head", "body"} /\ s = Stream(a)
            \/ to \in {"fbody", "fend"} /\ s = "file" /\ lib = "log"
        <5>1. to \in {"body", "end", "fbody", "fend"}
          BY <2>2, <2>4, <3>1 DEF Continues
        <5>2. lib = "slog" => to \in {"body", "end"}
          BY <2>1, <5>1 DEF PrintsTo
        <5> QED BY <2>1, <5>1, <5>2 DEF PrintsTo
      <4>2. Stream(a)' = s
        BY <2>2, <4>1 DEF Stream
      <4>3. s \in {"screen", "file"}
        BY <2>1, <2>2, <4>1 DEF PrintsTo, Stream, StreamInv, TypeOK
      <4> QED BY <2>1, <3>1, <4>2, <4>3, FollowsOwn
    <3>2. CASE t # a
      <4>1. Continues(t) /\ t \notin swapped /\ Stream(t)' = Stream(t)
        BY <2>2, <2>4, <3>2 DEF Continues, Stream
      <4>2. pc[a] \in {"head", "body", "end", "file", "fhead", "fbody", "fend"}
        BY <2>1 DEF PrintsTo
      <4>3. a = Handler
        BY <3>2, <4>1, <4>2 DEF LockInv, Inside, Continues
      <4>4. Follows(out[Stream(t)], Len(out[Stream(t)]) + 1, call[t].id)
        BY <4>1 DEF WholeInv
      <4>5. Stream(t) \in {"screen", "file"}
        BY <4>1, LineStream
      <4>6. CASE s = Stream(t)
        BY <2>1, <4>1, <4>3, <4>4, <4>5, <4>6, FollowsHandler
      <4>7. CASE s # Stream(t)
        <5>1. out'[Stream(t)] = out[Stream(t)]
          BY <2>1, <4>5, <4>7, Printed
        <5> QED BY <4>1, <4>4, <5>1
      <4> QED BY <4>6, <4>7
    <3> QED BY <3>1, <3>2
  <2>5. ASSUME NEW r \in DOMAIN out', NEW k \in DOMAIN out'[r],
               Locked(out'[r][k]), out'[r][k].part \in {"body", "end"}
        PROVE  Follows(out'[r], k, out'[r][k].id) \/ (out'[r][k].torn /\ MayTear(r))
    <3>0. r \in {"screen", "file"} /\ r \in DOMAIN out /\ DOMAIN out[r] = 1 .. Len(out[r])
          /\ Len(out[r]) \in Nat
      BY <2>1, Printed, LenProperties
    <3>1. CASE k \in DOMAIN out[r] /\ out'[r][k] = out[r][k]
      <4>1. Follows(out[r], k, out[r][k].id) \/ (out[r][k].torn /\ MayTear(r))
        BY <2>5, <3>0, <3>1 DEF WholeInv, LinesWhole
      <4>2. k \in 1 .. Len(out[r]) + 1
        BY <3>0, <3>1
      <4> QED BY <2>1, <3>0, <3>1, <4>1, <4>2, FollowsKept
    <3>2. CASE r = s /\ k = Len(out[r]) + 1 /\ out'[r][k] = Piece(a, part, stamp)
      <4>1. /\ a \in Threads /\ part \in {"body", "end"} /\ out'[r][k].id = call[a].id
            /\ out'[r][k].torn = (a \in swapped)
        BY <2>5, <3>2 DEF Locked, Piece
      <4>2. Continues(a) /\ s = Stream(a)
        BY <2>1, <4>1 DEF PrintsTo, Continues, Stream
      <4>3. CASE a \notin swapped
        <5>1. Follows(out[r], k, call[a].id)
          BY <3>2, <4>1, <4>2, <4>3 DEF WholeInv
        <5>2. k \in 1 .. Len(out[r]) + 1
          BY <3>0, <3>2
        <5> QED BY <2>1, <3>0, <4>1, <5>1, <5>2, FollowsKept
      <4>4. CASE a \in swapped
        <5>1. lib = "slog" => s = "screen"
          BY <4>1, <4>2, <4>4 DEF StreamInv, Stream
        <5>2. lib # "slog" => lib = "log" /\ s = "file"
          BY <2>1, <2>3, <4>4 DEF PrintsTo, Using
        <5> QED BY <3>2, <4>1, <4>4, <5>1, <5>2 DEF MayTear
      <4> QED BY <4>3, <4>4
    <3> QED BY <2>1, <3>0, <3>1, <3>2, Printed
  <2>6. LinesWhole'
    BY <2>2, <2>5 DEF LinesWhole, MayTear
  <2> QED BY <2>2, <2>4, <2>6 DEF WholeInv
<1> QED BY <1>2, <1>3, <1>5, <1>6, <1>7, <1>8, <1>9, <1>10 DEF Steps, Acts

-----------------------------------------------------------------------------
(* The order in the file.                                                  *)

Screen == out["screen"]
File == out["file"]

\* The four parts of OrderInv.
InFileOnScreen ==
  \A j \in DOMAIN File : Locked(File[j]) => \E i \in DOMAIN Screen : Screen[i].id = File[j].id

LastOnScreen(t) ==
  \A k \in DOMAIN Screen : Screen[k].id = call[t].id =>
    /\ lock = t
    /\ \A j \in DOMAIN File : Locked(File[j]) =>
         \E i \in DOMAIN Screen : i <= k /\ Screen[i].id = File[j].id

Shown(t) ==
  pc[t] \in {"end", "file", "fhead", "fbody", "fend"} /\ ~(lib = "log" /\ quiet) =>
    \E k \in DOMAIN Screen : Screen[k].id = call[t].id

LEMMA OrderParts ==
  OrderInv <=> /\ lib # "slog" => InFileOnScreen /\ \A t \in Threads : LastOnScreen(t) /\ Shown(t)
               /\ SameOrder
BY DEF OrderInv, InFileOnScreen, LastOnScreen, Shown, Screen, File

LEMMA OrderPartsNext ==
  OrderInv' <=>
    /\ lib' # "slog" =>
         InFileOnScreen' /\ \A t \in Threads : LastOnScreen(t)' /\ Shown(t)'
    /\ SameOrder'
BY DEF OrderInv, InFileOnScreen, LastOnScreen, Shown, Screen, File

LEMMA StreamIds ==
  ASSUME TypeOK, IdsInv, NEW r \in {"screen", "file"}, NEW k \in DOMAIN out[r]
  PROVE  out[r][k].id \in 1 .. started
<1>1. out[r] \in Seq(Pieces)
  BY DEF TypeOK
<1>2. out[r][k] \in Pieces
  BY <1>1, ElementOfSeq
<1>3. out[r][k].id <= started
  BY DEF IdsInv, TypeOK
<1> QED BY <1>2, <1>3 DEF Pieces

\* Where nothing is printed, the calls in progress alone matter.
LEMMA OrderKept ==
  ASSUME TypeOK, IdsInv, OrderInv, UNCHANGED <<lib, out>>,
         \A t \in Threads :
           \/ call'[t].id = call[t].id /\ (lock = t => lock' = t)
           \/ call'[t].id \notin 1 .. started,
         \A t \in Threads :
           pc'[t] \in {"end", "file", "fhead", "fbody", "fend"} /\ ~(lib = "log" /\ quiet') =>
             /\ pc[t] \in {"end", "file", "fhead", "fbody", "fend"} /\ ~(lib = "log" /\ quiet)
             /\ call'[t].id = call[t].id
  PROVE  OrderInv'
<1>1. Screen' = Screen /\ File' = File
  BY DEF Screen, File
<1>2. SameOrder'
  BY DEF OrderInv, SameOrder
<1>3. lib # "slog" => InFileOnScreen'
  BY <1>1, OrderParts DEF InFileOnScreen
<1>4. ASSUME lib # "slog", NEW t \in Threads PROVE LastOnScreen(t)'
  <2>1. \A k \in DOMAIN Screen : Screen[k].id \in 1 .. started
    BY StreamIds DEF Screen
  <2>2. LastOnScreen(t)
    BY <1>4, OrderParts
  <2>3. CASE call'[t].id = call[t].id /\ (lock = t => lock' = t)
    BY <1>1, <2>2, <2>3 DEF LastOnScreen
  <2>4. CASE call'[t].id \notin 1 .. started
    BY <1>1, <2>1, <2>4 DEF LastOnScreen
  <2> QED BY <2>3, <2>4
<1>5. ASSUME lib # "slog", NEW t \in Threads PROVE Shown(t)'
  <2>1. Shown(t)
    BY <1>5, OrderParts
  <2> QED BY <1>1, <2>1 DEF Shown
<1> QED BY <1>2, <1>3, <1>4, <1>5, OrderPartsNext

\* A piece on the screen.
LEMMA OrderScreen ==
  ASSUME TypeOK, IdsInv, LockInv, OrderInv, lib # "slog",
         NEW a \in Activities, NEW to, NEW part, NEW stamp,
         PrintsTo(a, to, "screen", part, stamp),
         pc[a] \in {"head", "body", "end"}
  PROVE  InFileOnScreen' /\ (\A t \in Threads : LastOnScreen(t)' /\ Shown(t)') /\ SameOrder'
<1> DEFINE p == Piece(a, part, stamp)
<1>1. /\ File' = File /\ DOMAIN Screen' = 1 .. Len(Screen) + 1 /\ Len(Screen) \in Nat
      /\ DOMAIN Screen = 1 .. Len(Screen) /\ DOMAIN File \subseteq Nat
      /\ \A k \in DOMAIN Screen : Screen'[k] = Screen[k]
      /\ Screen'[Len(Screen) + 1] = p
  BY Printed, LenProperties DEF Screen, File
<1>2. p.id = call[a].id
  BY DEF Piece
<1>3. /\ \A b \in Activities : pc'[b] = IF b = a THEN to ELSE pc[b]
      /\ UNCHANGED <<lib, call, lock, quiet>>
  BY DEF PrintsTo, Steady, TypeOK
<1>4. InFileOnScreen /\ \A t \in Threads : LastOnScreen(t) /\ Shown(t)
  BY OrderParts
<1>5. \A t \in Threads : call[t].id = call[a].id => t = a
  BY Constants DEF IdsInv, Calling, TypeOK, CallRecords
<1> HIDE DEF p
<1>6. \A i \in DOMAIN Screen : i \in DOMAIN Screen' /\ i <= Len(Screen) + 1
  BY <1>1
<1>7. InFileOnScreen'
  BY <1>1, <1>4, <1>6 DEF InFileOnScreen
<1>8. ASSUME NEW t \in Threads PROVE LastOnScreen(t)'
  <2> SUFFICES ASSUME NEW k \in DOMAIN Screen', Screen'[k].id = call[t].id
               PROVE  /\ lock = t
                      /\ \A j \in DOMAIN File : Locked(File[j]) =>
                           \E i \in DOMAIN Screen' : i <= k /\ Screen'[i].id = File[j].id
    BY <1>1, <1>3 DEF LastOnScreen
  <2>1. CASE k \in DOMAIN Screen
    <3>1. Screen[k].id = call[t].id
      BY <1>1, <2>1
    <3>2. /\ lock = t
          /\ \A j \in DOMAIN File : Locked(File[j]) =>
               \E i \in DOMAIN Screen : i <= k /\ Screen[i].id = File[j].id
      BY <1>4, <2>1, <3>1 DEF LastOnScreen
    <3> QED BY <1>1, <1>6, <3>2
  <2>2. CASE k = Len(Screen) + 1
    <3>1. t = a
      BY <1>1, <1>2, <1>5, <2>2
    <3>2. lock = t
      BY <3>1 DEF LockInv, Inside
    <3>3. \A j \in DOMAIN File : Locked(File[j]) =>
            \E i \in DOMAIN Screen : Screen[i].id = File[j].id
      BY <1>4 DEF InFileOnScreen
    <3> QED BY <1>1, <1>6, <2>2, <3>2, <3>3
  <2> QED BY <1>1, <2>1, <2>2
<1>9. ASSUME NEW t \in Threads PROVE Shown(t)'
  <2>1. CASE t = a
    BY <1>1, <1>2, <1>3, <2>1 DEF Shown
  <2>2. CASE t # a
    BY <1>1, <1>3, <1>4, <1>6, <2>2 DEF Shown
  <2> QED BY <2>1, <2>2
<1>10. SameOrder'
  <2> SUFFICES ASSUME NEW j \in DOMAIN File, NEW k \in DOMAIN File, j < k,
                      Locked(File[j]), Locked(File[k])
               PROVE  NotAfter(Screen', File[j].id, File[k].id)
    BY <1>1, <1>3 DEF SameOrder, Screen, File
  <2>1. NotAfter(Screen, File[j].id, File[k].id)
    BY DEF OrderInv, SameOrder, Screen, File
  <2>2. \E i \in DOMAIN Screen : Screen[i].id = File[j].id
    BY <1>4 DEF InFileOnScreen
  <2>3. \E m \in DOMAIN Screen' : Screen'[m].id = File[k].id
    BY <1>1, <1>6, <2>1 DEF NotAfter
  <2>4. ASSUME NEW m \in DOMAIN Screen', Screen'[m].id = File[k].id
        PROVE  \E i \in DOMAIN Screen' : i <= m /\ Screen'[i].id = File[j].id
    <3>1. CASE m \in DOMAIN Screen
      <4>1. \E i \in DOMAIN Screen : i <= m /\ Screen[i].id = File[j].id
        BY <1>1, <2>1, <2>4, <3>1 DEF NotAfter
      <4> QED BY <1>1, <1>6, <4>1
    <3>2. CASE m = Len(Screen) + 1
      BY <1>1, <1>6, <2>2, <3>2
    <3> QED BY <1>1, <3>1, <3>2
  <2> QED BY <2>3, <2>4 DEF NotAfter
<1> QED BY <1>7, <1>8, <1>9, <1>10

\* A line in the file.
LEMMA OrderFile ==
  ASSUME TypeOK, IdsInv, LockInv, StreamInv, OrderInv, lib # "slog",
         NEW a \in Activities, NEW to, NEW part, NEW stamp,
         PrintsTo(a, to, "file", part, stamp),
         \/ pc[a] = "file" /\ lib # "log" /\ to = "unlock"
         \/ pc[a] \in {"fhead", "fbody", "fend"} /\ lib = "log" /\ a \in Threads
            /\ to \in {"fbody", "fend", "flush"}
  PROVE  InFileOnScreen' /\ (\A t \in Threads : LastOnScreen(t)' /\ Shown(t)') /\ SameOrder'
<1> DEFINE p == Piece(a, part, stamp)
<1>1. /\ Screen' = Screen /\ DOMAIN File' = 1 .. Len(File) + 1 /\ Len(File) \in Nat
      /\ DOMAIN File = 1 .. Len(File)
      /\ \A k \in DOMAIN File : File'[k] = File[k]
      /\ File'[Len(File) + 1] = p
  BY Printed, LenProperties DEF Screen, File
<1>2. p.id = call[a].id /\ (Locked(p) <=> a \in Threads)
  BY DEF Piece, Locked
<1>3. /\ \A b \in Activities : pc'[b] = IF b = a THEN to ELSE pc[b]
      /\ UNCHANGED <<lib, call, lock, quiet>>
  BY DEF PrintsTo, Steady, TypeOK
<1>4. InFileOnScreen /\ \A t \in Threads : LastOnScreen(t) /\ Shown(t)
  BY OrderParts
<1>5. a \in Threads => lock = a /\ \E k \in DOMAIN Screen : Screen[k].id = call[a].id
  <2>1. a \in Threads => lock = a
    BY DEF LockInv, Inside
  <2>2. a \in Threads => ~(lib = "log" /\ quiet)
    BY DEF StreamInv
  <2> QED BY <1>4, <2>1, <2>2 DEF Shown
<1> HIDE DEF p
<1>6. ASSUME NEW j \in DOMAIN File', Locked(File'[j])
      PROVE  \/ j \in DOMAIN File /\ File'[j] = File[j] /\ Locked(File[j])
             \/ j = Len(File) + 1 /\ a \in Threads /\ File'[j].id = call[a].id
  BY <1>1, <1>2, <1>6
<1>7. InFileOnScreen'
  BY <1>1, <1>4, <1>5, <1>6 DEF InFileOnScreen
<1>8. ASSUME NEW t \in Threads PROVE LastOnScreen(t)'
  <2> SUFFICES ASSUME NEW k \in DOMAIN Screen, Screen[k].id = call[t].id
               PROVE  /\ lock = t
                      /\ \A j \in DOMAIN File' : Locked(File'[j]) =>
                           \E i \in DOMAIN Screen : i <= k /\ Screen[i].id = File'[j].id
    BY <1>1, <1>3 DEF LastOnScreen
  <2>1. /\ lock = t
        /\ \A j \in DOMAIN File : Locked(File[j]) =>
             \E i \in DOMAIN Screen : i <= k /\ Screen[i].id = File[j].id
    BY <1>4 DEF LastOnScreen
  <2>2. ASSUME NEW j \in DOMAIN File', Locked(File'[j])
        PROVE  \E i \in DOMAIN Screen : i <= k /\ Screen[i].id = File'[j].id
    <3>1. CASE j \in DOMAIN File /\ File'[j] = File[j] /\ Locked(File[j])
      BY <2>1, <3>1
    <3>2. CASE a \in Threads /\ File'[j].id = call[a].id
      <4>1. t = a /\ k \in Nat
        BY <1>5, <2>1, <3>2, LenProperties DEF Screen, TypeOK
      <4> QED BY <3>2, <4>1
    <3> QED BY <1>6, <2>2, <3>1, <3>2
  <2> QED BY <2>1, <2>2
<1>9. ASSUME NEW t \in Threads PROVE Shown(t)'
  BY <1>1, <1>3, <1>4 DEF Shown
<1>10. SameOrder'
  <2> SUFFICES ASSUME NEW j \in DOMAIN File', NEW k \in DOMAIN File', j < k,
                      Locked(File'[j]), Locked(File'[k])
               PROVE  NotAfter(Screen, File'[j].id, File'[k].id)
    BY <1>1, <1>3 DEF SameOrder, Screen, File
  <2>1. j \in DOMAIN File /\ File'[j] = File[j] /\ Locked(File[j])
    BY <1>1, <1>6
  <2>2. CASE k \in DOMAIN File /\ File'[k] = File[k] /\ Locked(File[k])
    BY <2>1, <2>2 DEF OrderInv, SameOrder, Screen, File
  <2>3. CASE a \in Threads /\ File'[k].id = call[a].id
    <3>1. \A m \in DOMAIN Screen : Screen[m].id = call[a].id =>
            \E i \in DOMAIN Screen : i <= m /\ Screen[i].id = File[j].id
      BY <1>4, <2>1, <2>3 DEF LastOnScreen
    <3> QED BY <1>5, <2>1, <2>3, <3>1 DEF NotAfter
  <2> QED BY <1>6, <2>2, <2>3
<1> QED BY <1>7, <1>8, <1>9, <1>10

LEMMA OrderStep ==
  ASSUME TypeOK, IdsInv, LockInv, StreamInv, OrderInv, Steps
  PROVE  OrderInv'
<1> USE Constants
<1>0. NoCall.id \notin 1 .. started /\ started + 1 \notin 1 .. started
  BY DEF NoCall, TypeOK
<1>1. CASE UNCHANGED vars
  BY <1>1, OrderKept DEF vars, settings, stamping, calls
<1>2. CASE Sets
  <2>1. UNCHANGED <<lib, out, pc, call>>
    BY <1>2 DEF Sets
  <2>2. lock' = lock \/ \A t \in Threads : call[t] = NoCall
    BY <1>2 DEF Sets, Quiescent, IdsInv
  <2>3. quiet' = quiet \/ \A t \in Threads : pc[t] = "idle"
    BY <1>2 DEF Sets, Quiescent
  <2> QED BY <1>0, <2>1, <2>2, <2>3, OrderKept
<1>3. ASSUME NEW a \in Activities, Begins(a) PROVE OrderInv'
  <2>1. PICK step, l, k : BeginsAt(a, step, l, k)
    BY <1>3 DEF Begins
  <2>2. call'[a].id = started + 1
    BY <2>1 DEF BeginsAt, TypeOK, NoCall
  <2>3. /\ UNCHANGED <<lib, out, lock, quiet>> /\ pc'[a] \in {"convert", "gate"}
        /\ \A b \in Activities \ {a} : call'[b] = call[b] /\ pc'[b] = pc[b]
    BY <2>1 DEF BeginsAt, Steady, TypeOK
  <2> QED BY <1>0, <2>2, <2>3, OrderKept
<1>4. ASSUME NEW a \in Activities, Returns(a) PROVE OrderInv'
  <2>1. /\ UNCHANGED <<lib, out, quiet>> /\ pc'[a] = "idle" /\ call'[a] = NoCall
        /\ \A b \in Activities \ {a} : call'[b] = call[b] /\ pc'[b] = pc[b]
        /\ lock' = lock \/ (a \in Threads /\ pc[a] = "unlock")
    BY <1>4 DEF Returns, Steady, TypeOK
  <2>2. \A t \in Threads \ {a} : lock = t => lock' = t
    BY <2>1 DEF LockInv, Inside
  <2> QED BY <1>0, <2>1, <2>2, OrderKept
<1>5. ASSUME NEW a \in Activities, Converts(a) PROVE OrderInv'
  <2>1. /\ UNCHANGED <<lib, out, lock, quiet>> /\ pc'[a] = "date"
        /\ \A b \in Activities \ {a} : call'[b] = call[b] /\ pc'[b] = pc[b]
        /\ call'[a].id = call[a].id
    BY <1>5 DEF Converts, settings, TypeOK, CallRecords
  <2> QED BY <2>1, OrderKept
<1>6. ASSUME NEW a \in Activities, Formats(a) PROVE OrderInv'
  <2>1. PICK to, x : FormatsTo(a, to, x)
    BY <1>6 DEF Formats
  <2>2. /\ UNCHANGED <<lib, out, lock, quiet>> /\ pc'[a] = to
        /\ \A b \in Activities \ {a} : call'[b] = call[b] /\ pc'[b] = pc[b]
        /\ call'[a].id = call[a].id
    BY <2>1 DEF FormatsTo, Steady, TypeOK, CallRecords
  <2>3. to \in {"time", "gate", "head"} \/ (to = "fhead" /\ pc[a] = "file")
    BY <2>1 DEF FormatsTo
  <2> QED BY <2>2, <2>3, OrderKept
<1>7. ASSUME NEW a \in Activities, Moves(a) PROVE OrderInv'
  <2>1. PICK to : MovesTo(a, to)
    BY <1>7 DEF Moves
  <2>2. /\ \A b \in Activities : pc'[b] = IF b = a THEN to ELSE pc[b]
        /\ UNCHANGED <<lib, call, out, quiet>>
    BY <2>1 DEF MovesTo, TypeOK
  <2>3. to \in {"end", "file", "fhead", "fbody", "fend"} =>
          lib = "log" /\ (quiet \/ pc[a] \in {"fhead", "fbody"})
    BY <2>1 DEF MovesTo, GoesTo, Misses, Locks, First, Defaults, Printing, Opens, Closes,
                TypeOK
  <2>4. CASE lib # "slog"
    <3>1. \A t \in Threads : lock = t => lock' = t
      BY <2>1, <2>4 DEF MovesTo, GoesTo, Misses, Locks, Acquire, Defaults, Opens, Closes
    <3> QED BY <2>2, <2>3, <3>1, OrderKept
  <2>5. CASE lib = "slog"
    BY <2>2, <2>5, OrderPartsNext DEF SameOrder
  <2> QED BY <2>4, <2>5
<1>8. ASSUME NEW a \in Activities, Prints(a) PROVE OrderInv'
  <2>1. PICK to, s, part, stamp : PrintsTo(a, to, s, part, stamp)
    BY <1>8 DEF Prints
  <2>2. lib' = lib
    BY <2>1 DEF PrintsTo, Steady
  <2>3. CASE lib = "slog"
    BY <2>2, <2>3, OrderPartsNext DEF SameOrder
  <2>4. CASE lib # "slog"
    <3>1. \/ s = "screen" /\ pc[a] \in {"head", "body", "end"}
          \/ s = "file" /\ pc[a] = "file" /\ lib # "log" /\ to = "unlock"
          \/ s = "file" /\ pc[a] \in {"fhead", "fbody", "fend"} /\ lib = "log"
             /\ to \in {"fbody", "fend", "flush"}
      BY <2>1, <2>4 DEF PrintsTo, Stream
    <3>2. lib = "log" => a \in Threads
      BY <3>1 DEF LockInv
    <3> QED BY <2>1, <2>2, <2>4, <3>1, <3>2, OrderScreen, OrderFile, OrderPartsNext
  <2> QED BY <2>3, <2>4
<1> QED BY <1>1, <1>2, <1>3, <1>4, <1>5, <1>6, <1>7, <1>8 DEF Steps, Acts

-----------------------------------------------------------------------------
(* The theorems.                                                           *)

LEMMA LogInit ==
  ASSUME Init
  PROVE  LogInv
<1> USE Constants DEF Init
<1>1. TypeOK
  <2>1. pc \in [Activities -> PcSteps] /\ call \in [Activities -> CallRecords]
    BY DEF PcSteps
  <2>2. \A s \in {"screen", "file"} : <<>> \in Seq(Pieces)
    OBVIOUS
  <2>3. out \in [{"screen", "file"} -> Seq(Pieces)]
    BY <2>2
  <2>4. 1 \in Levels
    BY FS_EmptySet, FS_CardinalityType
  <2>5. enabled \subseteq Levels
    BY <2>4
  <2>6. clock \in Times /\ tm \in Times /\ started \in 0 .. MaxCalls /\ inits \in 0 .. MaxInits[lib]
    BY DEF Times
  <2> QED BY <2>1, <2>3, <2>5, <2>6 DEF TypeOK
<1>2. \A a \in Activities : pc[a] = "idle" /\ call[a] = NoCall
  OBVIOUS
<1>3. /\ NoCall.id = 0 /\ NoCall.at = 0
      /\ \A s \in DOMAIN out : DOMAIN out[s] = {} /\ out[s] = <<>>
  BY DEF NoCall
<1>4. IdsInv /\ LockInv /\ StreamInv
  BY <1>2, <1>3 DEF IdsInv, LockInv, Inside, StreamInv, CrashesExplained, Calling, Using
<1>5. ClockInv
  <2>1. Unread = {}
    BY <1>2, <1>3 DEF Unread
  <2> QED BY <1>2, <1>3, <2>1, FS_EmptySet DEF ClockInv
<1>6. TimeInv /\ WholeInv /\ OrderInv
  BY <1>2, <1>3 DEF TimeInv, OwnTime, WholeInv, LinesWhole, Continues, OrderInv, SameOrder
<1> QED BY <1>1, <1>4, <1>5, <1>6 DEF LogInv

LEMMA LogStepKeeps ==
  ASSUME LogInv, [Next]_vars
  PROVE  LogInv'
<1> USE DEF LogInv
<1>1. Steps
  BY StepKinds
<1>2. ClockInv' /\ clock' \in Times /\ tm' \in Times
  BY <1>1, ClockStep
<1> QED BY <1>1, <1>2, Alive, TypesStep, IdsStep, LockStep, TimeStep, StreamStep, WholeStep, OrderStep

\* In every program that logs with one of the three libraries, from any number
\* of threads and from handlers, the parts of LogInv hold of the calls, of the
\* mutex, of the clock and of the streams.
THEOREM LogInvariant == Spec => []LogInv
<1>1. Init => LogInv
  BY LogInit
<1>2. LogInv /\ [Next]_vars => LogInv'
  BY LogStepKeeps
<1> QED BY <1>1, <1>2, PTL DEF Spec

\* The settings, the calls in progress and the streams keep their types; the
\* clock is read at most once by a call.
THEOREM LogTypes == Spec => []TypeOK
<1>1. LogInv => TypeOK
  BY DEF LogInv
<1> QED BY <1>1, LogInvariant, PTL

\* The pieces of the lines of different threads do not mix: a piece that does not
\* stand behind the one before it is one of log.c in a file changed in between, or
\* one of slog on stdout that a handler has put in the place of the file.
THEOREM LinesStayWhole == Spec => []LinesWhole
<1>1. LogInv => LinesWhole
  BY DEF LogInv, WholeInv
<1> QED BY <1>1, LogInvariant, PTL

\* The file has the lines of the threads in the order of the screen.
THEOREM FileFollowsScreen == Spec => []SameOrder
<1>1. LogInv => SameOrder
  BY DEF LogInv, OrderInv
<1> QED BY <1>1, LogInvariant, PTL

\* A line has the time of its call, unless another call converted meanwhile.
THEOREM StampIsOwn == Spec => []OwnTime
<1>1. LogInv => OwnTime
  BY DEF LogInv, TimeInv
<1> QED BY <1>1, LogInvariant, PTL

\* Logging ends the process only by the four causes of CrashesExplained, which
\* name the stream, the settings and the activity at that moment.
THEOREM CrashesAreThese == Spec => []CrashesExplained
<1>1. LogInv => CrashesExplained
  BY DEF LogInv, StreamInv
<1> QED BY <1>1, LogInvariant, PTL
=============================================================================
