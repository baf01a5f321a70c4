----------------------------- MODULE MCLoggers ------------------------------
(* Two threads and a handler; one level, switched on or off.  log.c needs   *)
(* three file_log_inits and file_log_deinits to close a stream twice, or    *)
(* to open one under a line that is being written to another.               *)
EXTENDS Loggers

MCMaxInits == [log |-> 4, pretty_log |-> 1, slog |-> 2]
=============================================================================
